---- MODULE Spec2Model ----
(***************************************************************************)
(* The move-selection core of the five-in-a-row engine: the pattern        *)
(* evaluator (AI/evaluator.py), the shared engine base (AI/base_ai.py),    *)
(* the alpha-beta searcher (AI/minimax_ai.py) and the MCTS searcher        *)
(* (AI/mcts_ai.py).                                                        *)
(*                                                                         *)
(* Boards are Python lists of row lists.  They live in a heap, a sequence  *)
(* of board contents addressed by reference, so that a write through an    *)
(* alias is a write to the object every holder of the reference sees.      *)
(* Reference 1 is the board object of the caller of move().                *)
(*                                                                         *)
(* Scores are the code's floats in fixed point, in hundredths (Scale):     *)
(* the position weights 1.5 - d/dmax are kept to two decimals, and every   *)
(* score stays within the 32 bits of a TLC integer.                        *)
(***************************************************************************)
EXTENDS Integers, Sequences, FiniteSets, TLC

(* ------------------------------ bounds -------------------------------- *)
\* Side of the board (Config board_size; 15 by default).
BoardSize == 5
\* Number of cells of an input board that vary, for each searcher.
MinimaxSlots == 5
MCTSSlots == 3
\* Side of the boards the evaluator and the win check are applied to.
EvalSize == 10
\* The side of the board the game is played on and the stones a game places.
GameSize == 3
MaxMoves == 2
\* The open cells of the boards rollouts are watched on, and the passes watched.
RolloutSlots == 6
RolloutPasses == 2

(* --------------------------- program constants ------------------------ *)
EMPTY == 0
BLACK == 1
WHITE == 2
FIVE == 1000000
FOUR == 100000
BLOCKED_FOUR == 10000
THREE == 10000
BLOCKED_THREE == 1000
TWO == 100
BLOCKED_TWO == 10
ONE == 1
Scale == 100
Inf == 2000000000
AI_LEVELS == {"easy", "medium", "hard", "expert"}
Colors == {BLACK, WHITE}

Idx(n) == 0 .. (n - 1)

Opponent(color) == IF color = BLACK THEN WHITE ELSE BLACK

Max(a, b) == IF a >= b THEN a ELSE b
Min(a, b) == IF a <= b THEN a ELSE b

\* A local name: Body with its parameter bound to the value v.
Let(v, Body(_)) == Body(v)

(* ------------------------------- heap --------------------------------- *)
\* temp_board[x][y] = color: a write to the object behind ref.
SetCell(heap, ref, x, y, color) ==
    [heap EXCEPT ![ref] = [@ EXCEPT ![x] = [@ EXCEPT ![y] = color]]]

\* A copy that shares the object (no copy at all).
AliasBoard(heap, ref) == [heap |-> heap, ref |-> ref]

\* [row.copy() for row in board]: a new object with the same contents.
_copy_board(heap, ref) == [heap |-> Append(heap, heap[ref]), ref |-> Len(heap) + 1]

\* Locals going out of scope: the heap as the caller of a function sees it.
Release(heap, len) == SubSeq(heap, 1, len)

CallerRef == 1
NoMove == << >>

(* ------------------------- board / win utilities ---------------------- *)
RECURSIVE EmptyFrom(_, _, _)
EmptyFrom(n, b, k) ==
    IF k >= n * n THEN << >>
    ELSE LET i == k \div n
             j == k % n
         IN  IF b[i][j] = EMPTY THEN << <<i, j>> >> \o EmptyFrom(n, b, k + 1)
             ELSE EmptyFrom(n, b, k + 1)

\* All empty cells in row-major order.
_get_empty_positions(n, b) == EmptyFrom(n, b, 0)

_is_board_full(n, b) == \A i \in Idx(n), j \in Idx(n) : b[i][j] # EMPTY

\* The runs of five cells in the order the four loop nests visit them.
RowRuns(n) == [k \in 1 .. n * (n - 4) |->
                 [m \in 1 .. 5 |-> << (k - 1) \div (n - 4), ((k - 1) % (n - 4)) + m - 1 >>]]
ColRuns(n) == [k \in 1 .. n * (n - 4) |->
                 [m \in 1 .. 5 |-> << ((k - 1) % (n - 4)) + m - 1, (k - 1) \div (n - 4) >>]]
DiagRuns(n) == [k \in 1 .. (n - 4) * (n - 4) |->
                 [m \in 1 .. 5 |-> << ((k - 1) \div (n - 4)) + m - 1,
                                      ((k - 1) % (n - 4)) + m - 1 >>]]
AntiRuns(n) == [k \in 1 .. (n - 4) * (n - 4) |->
                 [m \in 1 .. 5 |-> << ((k - 1) \div (n - 4)) + m - 1,
                                      4 + ((k - 1) % (n - 4)) - (m - 1) >>]]
\* A scan that leaves out the anti-diagonals.
RunsWithoutAnti(n) == RowRuns(n) \o ColRuns(n) \o DiagRuns(n)
WinRuns(n) == RowRuns(n) \o ColRuns(n) \o DiagRuns(n) \o AntiRuns(n)
BoardRuns == WinRuns(BoardSize)
RunsOf(n) == IF n = BoardSize THEN BoardRuns ELSE WinRuns(n)

RunHolds(b, run, color) == \A m \in 1 .. 5 : b[run[m][1]][run[m][2]] = color

\* The first run from the k-th on that color holds, 0 when there is none.
FirstRun(runs, b, color, k) ==
    Let({ m \in k .. Len(runs) : RunHolds(b, runs[m], color) }, LAMBDA held :
        IF held = {} THEN 0 ELSE CHOOSE m \in held : \A m2 \in held : m <= m2)

\* (won, the five coordinates of the first run found).
_is_win(n, b, color) ==
    Let(FirstRun(RunsOf(n), b, color, 1), LAMBDA k :
        IF k = 0 THEN [win |-> FALSE, line |-> << >>]
        ELSE [win |-> TRUE, line |-> RunsOf(n)[k]])

(* ---------------------------- sorting helper -------------------------- *)
\* list.sort(key=score, reverse=True): stable, descending by score.
RECURSIVE InsertDesc(_, _, _)
InsertDesc(sorted, e, k) ==
    IF k > Len(sorted) THEN Append(sorted, e)
    ELSE IF sorted[k].score < e.score
         THEN SubSeq(sorted, 1, k - 1) \o << e >> \o SubSeq(sorted, k, Len(sorted))
         ELSE InsertDesc(sorted, e, k + 1)

RECURSIVE SortDesc(_, _, _)
SortDesc(items, k, acc) ==
    IF k > Len(items) THEN acc
    ELSE SortDesc(items, k + 1, InsertDesc(acc, items[k], 1))

SortByScoreDesc(items) == SortDesc(items, 1, << >>)

(* --------------------------- pattern evaluator ------------------------ *)
RECURSIVE ISqrtIn(_, _, _)
\* The integer square root of v, known to lie in lo .. hi - 1.
ISqrtIn(v, lo, hi) ==
    IF hi - lo <= 1 THEN lo
    ELSE LET mid == (lo + hi) \div 2
         IN  IF mid * mid <= v THEN ISqrtIn(v, mid, hi) ELSE ISqrtIn(v, lo, mid)

ISqrt(v) == ISqrtIn(v, 0, 46341)

\* position weight 1.5 - distance / max_distance, in hundredths.
PositionWeight(n, i, j) ==
    LET center == n \div 2
        d2 == (i - center) * (i - center) + (j - center) * (j - center)
    IN  150 - ISqrt((10000 * d2) \div (2 * center * center))

_init_position_weights(n) == [i \in Idx(n) |-> [j \in Idx(n) |-> PositionWeight(n, i, j)]]

\* BoardEvaluator(board_size)
BoardEvaluator(n) == [board_size |-> n, position_weights |-> _init_position_weights(n)]

\* The cells of the window centred on (x, y) along (dx, dy) that lie on the
\* board of side n, in order.
ClippedWindow(n, b, x, y, dx, dy) ==
    LET ks == { k \in -4 .. 4 : /\ x + k * dx \in 0 .. (n - 1)
                                /\ y + k * dy \in 0 .. (n - 1) }
        lo == CHOOSE k \in ks : \A l \in ks : k <= l
    IN  [i \in 1 .. Cardinality({ k \in ks : \A l \in lo .. k : l \in ks }) |->
            b[x + (lo + i - 1) * dx][y + (lo + i - 1) * dy]]

\* Windows cut at the border of the board instead of left out.
ClippedSegments(ev, b, x, y) ==
    << ClippedWindow(ev.board_size, b, x, y, 0, 1),
       ClippedWindow(ev.board_size, b, x, y, 1, 0),
       ClippedWindow(ev.board_size, b, x, y, 1, 1),
       ClippedWindow(ev.board_size, b, x, y, 1, -1) >>

\* The length-9 windows centred on (x, y) that fit on the board, in the
\* order row, column, diagonal, anti-diagonal.
_get_line_segments(ev, b, x, y) ==
    LET n == ev.board_size
        fitY == y - 4 >= 0 /\ y + 4 < n
        fitX == x - 4 >= 0 /\ x + 4 < n
    IN  (IF fitY THEN << [k \in 1 .. 9 |-> b[x][y - 5 + k]] >> ELSE << >>)
        \o (IF fitX THEN << [k \in 1 .. 9 |-> b[x - 5 + k][y]] >> ELSE << >>)
        \o (IF fitX /\ fitY THEN << [k \in 1 .. 9 |-> b[x - 5 + k][y - 5 + k]] >> ELSE << >>)
        \o (IF fitX /\ fitY THEN << [k \in 1 .. 9 |-> b[x - 5 + k][y + 5 - k]] >> ELSE << >>)

Normalize(segment, color) ==
    [k \in 1 .. Len(segment) |->
        IF segment[k] = color THEN 1
        ELSE IF segment[k] = Opponent(color) THEN 2 ELSE 0]

Occurs(norm, pat) ==
    \E i \in 1 .. (Len(norm) - Len(pat) + 1) : SubSeq(norm, i, i + Len(pat) - 1) = pat

OccursAny(norm, pats) == \E p \in pats : Occurs(norm, p)

blocked_four_patterns ==
    { <<0, 1, 1, 1, 1, 2>>, <<2, 1, 1, 1, 1, 0>>, <<0, 1, 1, 1, 1, 1>>, <<1, 1, 1, 1, 0, 1>> }
blocked_three_patterns ==
    { <<0, 1, 1, 1, 2>>, <<2, 1, 1, 1, 0>>, <<0, 1, 1, 1, 1>>, <<1, 1, 1, 0, 1>> }
blocked_two_patterns ==
    { <<0, 1, 1, 2>>, <<2, 1, 1, 0>>, <<0, 1, 1, 1>>, <<1, 1, 0, 1>> }

\* A pattern test that knows no five: a completed five counts as a four.
MatchWithoutFive(segment, color) ==
    Let(Normalize(segment, color), LAMBDA norm :
        IF Occurs(norm, <<1, 1, 1, 1>>) THEN FOUR
        ELSE IF Occurs(norm, <<0, 1, 0>>) THEN ONE
        ELSE 0)

\* The weight of the first category, in the order of the tests, that occurs.
_match_pattern(segment, color) ==
    Let(Normalize(segment, color), LAMBDA norm :
        IF Occurs(norm, <<1, 1, 1, 1, 1>>) THEN FIVE
        ELSE IF Occurs(norm, <<0, 1, 1, 1, 1, 0>>) THEN FOUR
        ELSE IF OccursAny(norm, blocked_four_patterns) THEN BLOCKED_FOUR
        ELSE IF Occurs(norm, <<0, 1, 1, 1, 0>>) THEN THREE
        ELSE IF OccursAny(norm, blocked_three_patterns) THEN BLOCKED_THREE
        ELSE IF Occurs(norm, <<0, 1, 1, 0>>) THEN TWO
        ELSE IF OccursAny(norm, blocked_two_patterns) THEN BLOCKED_TWO
        ELSE IF Occurs(norm, <<0, 1, 0>>) THEN ONE
        ELSE 0)

RECURSIVE SumPatterns(_, _, _)
SumPatterns(segments, color, k) ==
    IF k > Len(segments) THEN 0
    ELSE _match_pattern(segments[k], color) + SumPatterns(segments, color, k + 1)

\* Score of placing color at (x, y), in hundredths; the placement is tried
\* on a copy of the board.  Returns the score and the heap left behind.
evaluate_position(ev, heap, ref, x, y, color) ==
    IF heap[ref][x][y] # EMPTY THEN [score |-> 0, heap |-> heap]
    ELSE Let([heap |-> Append(heap, heap[ref]), ref |-> Len(heap) + 1], LAMBDA cp :
         Let(SetCell(cp.heap, cp.ref, x, y, color), LAMBDA h2 :
         Let(_get_line_segments(ev, h2[cp.ref], x, y), LAMBDA segments :
         Let(SumPatterns(segments, color, 1), LAMBDA total :
             [score |-> total * ev.position_weights[x][y],
              heap |-> Release(h2, Len(heap))]))))

RECURSIVE BoardSum(_, _, _, _, _, _)
\* The loop of evaluate_board over the cells lo .. hi - 1 in row-major
\* order (the range is halved, the left half is summed first).
BoardSum(ev, heap, ref, ai_color, lo, hi) ==
    IF hi <= lo THEN [score |-> 0, heap |-> heap]
    ELSE IF hi = lo + 1
    THEN IF heap[ref][lo \div ev.board_size][lo % ev.board_size] # EMPTY
         THEN [score |-> 0, heap |-> heap]
         ELSE Let(evaluate_position(ev, heap, ref, lo \div ev.board_size,
                                    lo % ev.board_size, ai_color), LAMBDA a :
              Let(evaluate_position(ev, a.heap, ref, lo \div ev.board_size,
                                    lo % ev.board_size, Opponent(ai_color)), LAMBDA o :
                  [score |-> a.score - o.score, heap |-> o.heap]))
    ELSE Let(BoardSum(ev, heap, ref, ai_color, lo, (lo + hi) \div 2), LAMBDA left :
         Let(BoardSum(ev, left.heap, ref, ai_color, (lo + hi) \div 2, hi), LAMBDA right :
             [score |-> left.score + right.score, heap |-> right.heap]))

\* An evaluate_board that sums for Black whoever asks.
BoardSumForBlack(ev, heap, ref, ai_color) ==
    BoardSum(ev, heap, ref, BLACK, 0, ev.board_size * ev.board_size)

\* Score of the whole board for ai_color, in hundredths.
evaluate_board(ev, heap, ref, ai_color) ==
    IF _is_win(ev.board_size, heap[ref], ai_color).win
    THEN [score |-> FIVE * 2 * Scale, heap |-> heap]
    ELSE IF _is_win(ev.board_size, heap[ref], Opponent(ai_color)).win
    THEN [score |-> (0 - FIVE) * 2 * Scale, heap |-> heap]
    ELSE BoardSum(ev, heap, ref, ai_color, 0, ev.board_size * ev.board_size)

(* ------------------------------ engine base --------------------------- *)
\* Names bound in the module namespace of minimax_ai.py and of mcts_ai.py.
MinimaxNames ==
    { "np", "List", "Tuple", "Dict", "Optional", "PIECE_COLORS", "AI_LEVELS",
      "EVAL_WEIGHTS", "Config", "Logger", "BaseAI", "BoardEvaluator", "MinimaxAI" }
MCTSNames ==
    { "np", "random", "List", "Tuple", "Dict", "Optional", "Callable", "PIECE_COLORS",
      "AI_LEVELS", "EVAL_WEIGHTS", "Config", "Logger", "BaseAI", "BoardEvaluator",
      "MCTSNode", "MCTSAI" }

\* raise cls(message, code) in a module whose namespace is names: the
\* exception that leaves the statement.
Raise(names, cls, code) ==
    IF cls \in names THEN [type |-> cls, code |-> code]
    ELSE [type |-> "NameError", code |-> 0]

\* list[0] on a list: the element, or the IndexError of an empty list.
NoError == [type |-> "none", code |-> 0]
IndexError == [type |-> "IndexError", code |-> 0]

_get_max_depth_by_level(level) ==
    CASE level = "easy" -> 3
      [] level = "medium" -> 4
      [] level = "hard" -> 5
      [] level = "expert" -> 6
      [] OTHER -> 5

_get_iterations_by_level(level) ==
    CASE level = "easy" -> 200
      [] level = "medium" -> 500
      [] level = "hard" -> 1000
      [] level = "expert" -> 2000
      [] OTHER -> 1000

\* depth_map of MCTSAI.set_level
SimulationDepthOfLevel(level) ==
    CASE level = "easy" -> 3
      [] level = "medium" -> 4
      [] level = "hard" -> 5
      [] level = "expert" -> 6
      [] OTHER -> 5

\* BaseAI.__init__ followed by MinimaxAI.__init__
MinimaxAI(color, level) ==
    [ kind |-> "minimax", color |-> color, opponent_color |-> Opponent(color),
      level |-> level, board_size |-> BoardSize,
      max_depth |-> _get_max_depth_by_level(level),
      cache_enabled |-> TRUE, move_ordering_enabled |-> TRUE,
      evaluator |-> BoardEvaluator(BoardSize) ]

\* BaseAI.__init__ followed by MCTSAI.__init__
MCTSAI(color, level) ==
    [ kind |-> "mcts", color |-> color, opponent_color |-> Opponent(color),
      level |-> level, board_size |-> BoardSize,
      max_depth |-> _get_max_depth_by_level(level),
      cache_enabled |-> TRUE,
      evaluator |-> BoardEvaluator(BoardSize),
      iterations |-> _get_iterations_by_level(level),
      simulation_depth |-> 5 ]

\* BaseAI.set_level
BaseAI_set_level(self, level) ==
    [self EXCEPT !.level = level, !.max_depth = _get_max_depth_by_level(level)]

\* MinimaxAI.set_level (the prune threshold it also sets is never read)
MinimaxAI_set_level(self, level) == BaseAI_set_level(self, level)

\* A set_level that retunes the iteration budget and leaves the rollout depth.
SetLevelKeepingRollout(self, level) ==
    [BaseAI_set_level(self, level) EXCEPT !.iterations = _get_iterations_by_level(level)]

\* MCTSAI.set_level
MCTSAI_set_level(self, level) ==
    [BaseAI_set_level(self, level) EXCEPT
        !.iterations = _get_iterations_by_level(level),
        !.simulation_depth = SimulationDepthOfLevel(level)]

(* --------------------------- transposition cache ---------------------- *)
\* A key that leaves one cell of the board out.
KeyWithoutCell(self, b) == << [b EXCEPT ![1][0] = EMPTY], self.color >>

\* BaseAI._get_board_key
_get_board_key(self, b) == << b, self.color >>

_cache_evaluation(self, tt, b, score, depth) ==
    IF ~self.cache_enabled THEN tt
    ELSE (_get_board_key(self, b) :> [score |-> score, depth |-> depth]) @@ tt

_get_cached_evaluation(self, tt, b, depth) ==
    Let(_get_board_key(self, b), LAMBDA key :
        IF self.cache_enabled /\ key \in DOMAIN tt /\ tt[key].depth >= depth
        THEN [hit |-> TRUE, score |-> tt[key].score]
        ELSE [hit |-> FALSE, score |-> 0])

EmptyMap == [k \in {} |-> 0]

\* A clear_cache that keeps the table.
KeepCache(tt) == tt

\* BaseAI.clear_cache
clear_cache(tt) == EmptyMap

(* ---------------------------- alpha-beta search ----------------------- *)
\* Only the first killer move of a ply is kept.
_record_killer_move(killer_moves, depth, move) ==
    IF depth \in DOMAIN killer_moves THEN killer_moves
    ELSE (depth :> move) @@ killer_moves

InSeq(e, seq) == \E k \in 1 .. Len(seq) : seq[k] = e

RECURSIVE ScoreMoves(_, _, _, _, _, _, _, _)
ScoreMoves(self, heap, ref, moves, ordered, is_maximizing, k, acc) ==
    IF k > Len(moves) THEN [items |-> acc, heap |-> heap]
    ELSE IF InSeq(moves[k], ordered)
    THEN ScoreMoves(self, heap, ref, moves, ordered, is_maximizing, k + 1, acc)
    ELSE Let(evaluate_position(self.evaluator, heap, ref, moves[k][1], moves[k][2],
                               IF is_maximizing THEN self.color ELSE self.opponent_color),
             LAMBDA e :
             ScoreMoves(self, e.heap, ref, moves, ordered, is_maximizing, k + 1,
                        Append(acc, [move |-> moves[k],
                                     score |-> IF is_maximizing THEN e.score
                                               ELSE 0 - e.score])))

\* Killer move of the ply first, then the rest by static score, descending.
_order_moves(self, killer_moves, heap, ref, moves, is_maximizing, depth) ==
    IF moves = << >> THEN [moves |-> << >>, heap |-> heap]
    ELSE Let(IF depth \in DOMAIN killer_moves /\ InSeq(killer_moves[depth], moves)
             THEN << killer_moves[depth] >> ELSE << >>, LAMBDA ordered :
         Let(ScoreMoves(self, heap, ref, moves, ordered, is_maximizing, 1, << >>), LAMBDA sm :
         Let(SortByScoreDesc(sm.items), LAMBDA rest :
             [moves |-> ordered \o [k \in 1 .. Len(rest) |-> rest[k].move],
              heap |-> sm.heap])))

\* MinimaxAI.evaluate
Minimax_evaluate(self, heap, ref) == evaluate_board(self.evaluator, heap, ref, self.color)

\* S is the working state of one search: the heap, the transposition table,
\* the killer moves and the two counters.
RECURSIVE _alpha_beta(_, _, _, _, _, _, _, _)
RECURSIVE AlphaBetaLoop(_, _, _, _, _, _, _, _, _, _, _)

\* A leaf of the search: the score, stored in the cache.
Leaf(self, S, ref, depth, score, heap) ==
    [score |-> score,
     S |-> [S EXCEPT !.heap = heap,
                     !.tt = _cache_evaluation(self, @, heap[ref], score, depth)]]

_alpha_beta(self, S0, ref, depth, alpha, beta, is_maximizing, current_depth) ==
    Let([S0 EXCEPT !.node_count = @ + 1], LAMBDA S :
    Let(S.heap[ref], LAMBDA b :
    Let(_get_cached_evaluation(self, S.tt, b, depth), LAMBDA cached :
        IF cached.hit THEN [score |-> cached.score, S |-> S]
        ELSE IF depth = 0
        THEN Let(Minimax_evaluate(self, S.heap, ref), LAMBDA e :
                 Leaf(self, S, ref, depth, e.score, e.heap))
        ELSE IF is_maximizing /\ _is_win(self.board_size, b, self.color).win
        THEN Leaf(self, S, ref, depth, (FIVE + depth) * Scale, S.heap)
        ELSE IF ~is_maximizing /\ _is_win(self.board_size, b, self.opponent_color).win
        THEN Leaf(self, S, ref, depth, (0 - FIVE - depth) * Scale, S.heap)
        ELSE IF _is_board_full(self.board_size, b) THEN Leaf(self, S, ref, depth, 0, S.heap)
        ELSE Let(_order_moves(self, S.killer_moves, S.heap, ref,
                              _get_empty_positions(self.board_size, b), is_maximizing,
                              current_depth), LAMBDA om :
             Let(AlphaBetaLoop(self, [S EXCEPT !.heap = om.heap], ref, depth, alpha, beta,
                               is_maximizing, current_depth, om.moves, 1,
                               IF is_maximizing THEN 0 - Inf ELSE Inf), LAMBDA r :
                 [score |-> r.score,
                  S |-> [r.S EXCEPT !.tt = _cache_evaluation(self, @, r.S.heap[ref],
                                                             r.score, depth)]])))))

\* The loop over the ordered moves from the k-th on; best is the running
\* max_score or min_score.
AlphaBetaLoop(self, S, ref, depth, alpha, beta, is_maximizing, current_depth, moves, k, best) ==
    IF k > Len(moves) THEN [score |-> best, S |-> S]
    ELSE Let(_copy_board(S.heap, ref), LAMBDA cp :
         Let(_alpha_beta(self,
                         [S EXCEPT !.heap = SetCell(cp.heap, cp.ref, moves[k][1], moves[k][2],
                                                    IF is_maximizing THEN self.color
                                                    ELSE self.opponent_color)],
                         cp.ref, depth - 1, alpha, beta, ~is_maximizing, current_depth + 1),
             LAMBDA r :
         Let([r.S EXCEPT !.heap = Release(@, Len(S.heap))], LAMBDA S2 :
         Let(IF is_maximizing THEN Max(best, r.score) ELSE Min(best, r.score), LAMBDA nbest :
         Let(IF is_maximizing THEN Max(alpha, r.score) ELSE alpha, LAMBDA nalpha :
         Let(IF is_maximizing THEN beta ELSE Min(beta, r.score), LAMBDA nbeta :
             IF nbeta <= nalpha
             THEN [score |-> nbest,
                   S |-> [S2 EXCEPT !.prune_count = @ + 1,
                                    !.killer_moves =
                                        _record_killer_move(@, current_depth, moves[k])]]
             ELSE AlphaBetaLoop(self, S2, ref, depth, nalpha, nbeta, is_maximizing,
                                current_depth, moves, k + 1, nbest)))))))

(* ------------------------------- MCTS nodes --------------------------- *)
\* The tree is an arena: a sequence of nodes, node 1 the root; parent is an
\* index (0 for None), children a sequence of indices, board a heap reference.

\* MCTSNode._get_empty_positions: the side is len(board).
MCTSNode_get_empty_positions(b) == EmptyFrom(Cardinality(DOMAIN b), b, 0)

\* MCTSNode(board, parent, move)
MCTSNode(heap, ref, parent, move) ==
    [ board |-> ref, parent |-> parent, move |-> move, children |-> << >>,
      visits |-> 0, wins |-> 0,
      untried_moves |-> MCTSNode_get_empty_positions(heap[ref]), value |-> 0 ]

RECURSIVE FirstSolidRun(_, _, _)
FirstSolidRun(runs, b, k) ==
    IF k > Len(runs) THEN 0
    ELSE Let(b[runs[k][1][1]][runs[k][1][2]], LAMBDA color :
             IF color # EMPTY /\ RunHolds(b, runs[k], color) THEN k
             ELSE FirstSolidRun(runs, b, k + 1))

\* MCTSNode.is_terminal: a run of five of either colour, else no untried move.
is_terminal(node, heap, board_size) ==
    Let(heap[node.board], LAMBDA b :
    Let(FirstSolidRun(RunsOf(board_size), b, 1), LAMBDA k :
        IF k # 0
        THEN [terminal |-> TRUE,
              winner |-> b[RunsOf(board_size)[k][1][1]][RunsOf(board_size)[k][1][2]]]
        ELSE IF node.untried_moves = << >> THEN [terminal |-> TRUE, winner |-> 0]
        ELSE [terminal |-> FALSE, winner |-> 0]))

\* 1000 * ln(num / den) for num >= den > 0, to about three decimals.
RECURSIVE LnMilli(_, _)
LnMilli(num, den) ==
    IF num >= 2 * den THEN 693 + LnMilli(num, 2 * den)
    ELSE LET z == (1000 * (num - den)) \div (num + den)
             z3 == (z * z * z) \div 1000000
             z5 == (z3 * z * z) \div 1000000
         IN  2 * z + (2 * z3) \div 3 + (2 * z5) \div 5

\* 1000 * (win rate + 1.414 * sqrt(ln(parent visits) / child visits)); an
\* unvisited child has infinite priority.
UCT(parent, child) ==
    IF child.visits = 0 THEN Inf
    ELSE (1000 * child.wins) \div child.visits
         + (1414 * ISqrt((1000 * LnMilli(parent.visits, 1)) \div child.visits)) \div 1000

RECURSIVE ArgMax(_, _, _)
\* np.argmax: the first index of the largest value.
ArgMax(values, k, best) ==
    IF k > Len(values) THEN best
    ELSE ArgMax(values, k + 1, IF values[k] > values[best] THEN k ELSE best)

\* MCTSNode.uct_select_child
uct_select_child(tree, k) ==
    Let([c \in 1 .. Len(tree[k].children) |-> UCT(tree[k], tree[tree[k].children[c]])],
        LAMBDA uct_values : tree[k].children[ArgMax(uct_values, 1, 1)])

RemoveAt(seq, k) == SubSeq(seq, 1, k - 1) \o SubSeq(seq, k + 1, Len(seq))

\* MCTSNode.expand with the random index r: pops untried_moves[r], places
\* color on a copy of the node's board and attaches the new child.
expand(tree, heap, k, color, r) ==
    Let(tree[k].untried_moves[r + 1], LAMBDA move :
    Let([heap |-> Append(heap, heap[tree[k].board]), ref |-> Len(heap) + 1], LAMBDA cp :
    Let(SetCell(cp.heap, cp.ref, move[1], move[2], color), LAMBDA h2 :
    Let([tree EXCEPT ![k].untried_moves = RemoveAt(@, r + 1)], LAMBDA popped :
        [tree |-> Append([popped EXCEPT ![k].children = Append(@, Len(tree) + 1)],
                         MCTSNode(h2, cp.ref, k, move)),
         heap |-> h2, node |-> Len(tree) + 1]))))

\* A backpropagate that updates the node alone and not its ancestors.
BackpropagateNode(tree, k, res, ai_color) ==
    [tree EXCEPT ![k].visits = @ + 1,
                 ![k].wins = IF res = ai_color THEN @ + 1 ELSE @]

RECURSIVE backpropagate(_, _, _, _)
\* MCTSNode.backpropagate: from node k up to the root.
backpropagate(tree, k, res, ai_color) ==
    Let([tree EXCEPT
           ![k].visits = @ + 1,
           ![k].wins = IF res = ai_color THEN @ + 1 ELSE @,
           ![k].value = IF res = ai_color THEN @ + FIVE
                        ELSE IF res = 0 THEN @ + THREE \div 2
                        ELSE @ - FIVE], LAMBDA t2 :
        IF tree[k].parent # 0 THEN backpropagate(t2, tree[k].parent, res, ai_color) ELSE t2)

(* ------------------------------ MCTS search --------------------------- *)
RECURSIVE SelectUntried(_, _, _, _)
\* A selection that also stops at a node with untried moves.
SelectUntried(self, tree, heap, k) ==
    IF tree[k].children # << >> /\ tree[k].untried_moves = << >>
       /\ ~is_terminal(tree[k], heap, self.board_size).terminal
    THEN SelectUntried(self, tree, heap, uct_select_child(tree, k))
    ELSE k

RECURSIVE _select_node(_, _, _, _)
\* MCTSAI._select_node: descend while the node has children and is not terminal.
_select_node(self, tree, heap, k) ==
    IF tree[k].children # << >> /\ ~is_terminal(tree[k], heap, self.board_size).terminal
    THEN _select_node(self, tree, heap, uct_select_child(tree, k))
    ELSE k

RECURSIVE ScoreCells(_, _, _, _, _, _, _)
ScoreCells(self, heap, ref, cells, color, k, acc) ==
    IF k > Len(cells) THEN [items |-> acc, heap |-> heap]
    ELSE Let(evaluate_position(self.evaluator, heap, ref, cells[k][1], cells[k][2], color),
             LAMBDA e :
             ScoreCells(self, e.heap, ref, cells, color, k + 1,
                        Append(acc, [move |-> cells[k], score |-> e.score])))

RECURSIVE Rollout(_, _, _, _, _, _, _)
\* The loop of _simulate on its own board cur; the node's terminal test
\* reads the node, not cur.  placed lists the stones put on cur so far.
Rollout(self, heap, node_terminal, cur, current_color, depth, placed) ==
    IF depth >= self.simulation_depth
    THEN Let(evaluate_board(self.evaluator, heap, cur, self.color), LAMBDA e :
             [result |-> IF e.score > THREE * Scale THEN self.color
                         ELSE IF e.score < (0 - THREE) * Scale THEN self.opponent_color
                         ELSE 0,
              heap |-> e.heap, placed |-> placed])
    ELSE IF node_terminal.terminal
    THEN [result |-> node_terminal.winner, heap |-> heap, placed |-> placed]
    ELSE Let(_get_empty_positions(self.board_size, heap[cur]), LAMBDA empty_positions :
             IF empty_positions = << >> THEN [result |-> 0, heap |-> heap, placed |-> placed]
             ELSE Let(ScoreCells(self, heap, cur, empty_positions, current_color, 1, << >>),
                      LAMBDA sc :
                  Let(SortByScoreDesc(sc.items)[1].move, LAMBDA best_move :
                      Rollout(self,
                              SetCell(sc.heap, cur, best_move[1], best_move[2], current_color),
                              node_terminal, cur,
                              IF current_color = self.color THEN self.opponent_color
                              ELSE self.color,
                              depth + 1,
                              Append(placed, << best_move[1], best_move[2], current_color >>)))))

\* MCTSAI._simulate
_simulate(self, tree, heap, k) ==
    Let([heap |-> Append(heap, heap[tree[k].board]), ref |-> Len(heap) + 1], LAMBDA cp :
    Let(Rollout(self, cp.heap, is_terminal(tree[k], cp.heap, self.board_size), cp.ref,
                IF tree[k].parent # 0 THEN self.color ELSE self.opponent_color, 0, << >>),
        LAMBDA r :
        [result |-> r.result, heap |-> Release(r.heap, Len(heap)), placed |-> r.placed]))

RECURSIVE FirstMaxVisits(_, _, _, _)
FirstMaxVisits(tree, children, k, best) ==
    IF k > Len(children) THEN best
    ELSE FirstMaxVisits(tree, children, k + 1,
                        IF tree[children[k]].visits > tree[children[best]].visits
                        THEN k ELSE best)

\* A _get_best_move that reads the move of the root itself.
RootMove(self, tree, heap) == [error |-> NoError, move |-> tree[1].move]

\* A _get_best_move that always answers with the first empty cell.
FirstEmptyMove(self, tree, heap) ==
    Let(_get_empty_positions(self.board_size, heap[tree[1].board]), LAMBDA empty_positions :
        IF empty_positions = << >> THEN [error |-> IndexError, move |-> NoMove]
        ELSE [error |-> NoError, move |-> empty_positions[1]])

\* MCTSAI._get_best_move: the move, or the error of indexing an empty list.
_get_best_move(self, tree, heap) ==
    IF tree[1].children = << >>
    THEN Let(_get_empty_positions(self.board_size, heap[tree[1].board]),
             LAMBDA empty_positions :
             IF empty_positions = << >> THEN [error |-> IndexError, move |-> NoMove]
             ELSE [error |-> NoError, move |-> empty_positions[1]])
    ELSE [error |-> NoError,
          move |-> tree[tree[1].children[FirstMaxVisits(tree, tree[1].children, 1, 1)]].move]

RECURSIVE _get_tree_depth(_, _)
_get_tree_depth(tree, k) ==
    IF tree[k].children = << >> THEN 0
    ELSE Let([c \in 1 .. Len(tree[k].children) |->
                 _get_tree_depth(tree, tree[k].children[c])],
             LAMBDA d : 1 + d[ArgMax(d, 1, 1)])

RECURSIVE CheckWinningFrom(_, _, _, _)
CheckWinningFrom(self, heap, cells, k) ==
    IF k > Len(cells) THEN [move |-> NoMove, heap |-> heap]
    ELSE Let(_copy_board(heap, CallerRef), LAMBDA cp :
         Let(SetCell(cp.heap, cp.ref, cells[k][1], cells[k][2], self.color), LAMBDA h2 :
         Let(Release(h2, Len(heap)), LAMBDA h3 :
             IF _is_win(self.board_size, h2[cp.ref], self.color).win
             THEN [move |-> cells[k], heap |-> h3]
             ELSE CheckWinningFrom(self, h3, cells, k + 1))))

Reverse(seq) == [k \in 1 .. Len(seq) |-> seq[Len(seq) + 1 - k]]

\* A winning-cell scan that runs from the last empty cell backwards.
LastWinningMove(self, heap) ==
    CheckWinningFrom(self, heap,
                     Reverse(_get_empty_positions(self.board_size, heap[CallerRef])), 1)

\* MCTSAI._check_winning_move: the first empty cell, in row-major order,
\* that completes five for the engine, or NoMove.
_check_winning_move(self, heap) ==
    CheckWinningFrom(self, heap, _get_empty_positions(self.board_size, heap[CallerRef]), 1)

(* ------------------------------ input boards -------------------------- *)
\* Rows 0, 2 and 4 hold a line of one colour that ends in two cells at the
\* right edge; the first k of those cells (the slots) take every value, the
\* others are filled.  Everything else is a pattern without runs longer
\* than two.
LaneRows == {0, 2, 4}
LaneColor(i) == IF i = 2 THEN WHITE ELSE BLACK
Base(i, j) == 1 + (((i \div 2) + j) % 2)
SlotOrder(n) ==
    << <<0, n - 1>>, <<4, n - 1>>, <<0, n - 2>>, <<2, n - 1>>, <<2, n - 2>>, <<4, n - 2>> >>
Slots(n, k) == { SlotOrder(n)[m] : m \in 1 .. Min(k, Len(SlotOrder(n))) }
FixedCell(n, i, j) ==
    IF i \in LaneRows
    THEN IF j = n - 1 THEN Opponent(LaneColor(i))
         ELSE IF j >= n - 5 THEN LaneColor(i)
         ELSE IF j = n - 6 THEN Opponent(LaneColor(i))
         ELSE Base(i, j)
    ELSE Base(i, j)
InputBoards(n, k) ==
    { [i \in Idx(n) |-> [j \in Idx(n) |->
          IF <<i, j>> \in Slots(n, k) THEN f[<<i, j>>] ELSE FixedCell(n, i, j)]] :
      f \in [Slots(n, k) -> {EMPTY, BLACK, WHITE}] }
MinimaxBoards == InputBoards(BoardSize, MinimaxSlots)
MCTSBoards == InputBoards(BoardSize, MCTSSlots)

\* Boards of a game in its last moves: a mixed position, repeated with
\* period five on larger boards, whose open cells take every value.
MixedRows == << << 2, 2, 1, 1, 1 >>,
                << 0, 2, 1, 0, 2 >>,
                << 1, 1, 2, 1, 1 >>,
                << 1, 0, 1, 0, 1 >>,
                << 2, 0, 2, 1, 2 >> >>
MixedCell(i, j) == MixedRows[(i % 5) + 1][(j % 5) + 1]
OpenCells(n) == { c \in Idx(n) \X Idx(n) : MixedCell(c[1], c[2]) = EMPTY }
MixedBoards(n) ==
    { [i \in Idx(n) |-> [j \in Idx(n) |->
          IF <<i, j>> \in OpenCells(n) THEN f[<<i, j>>] ELSE MixedCell(i, j)]] :
      f \in [OpenCells(n) -> {EMPTY, BLACK, WHITE}] }

(* ----------------------- boards for the evaluator --------------------- *)
\* A board that is empty but for one line: from its first cell on, in one of
\* the four directions, a left neighbour, a run of up to five stones of one
\* colour and a right neighbour; a neighbour is empty or holds the other
\* colour, and is dropped when it falls off the board.
Directions == << <<0, 1>>, <<1, 0>>, <<1, 1>>, <<1, -1>> >>
OnBoard(n, x, y) == x \in Idx(n) /\ y \in Idx(n)
LineCells(color, m, l, r) == << l >> \o [k \in 1 .. m |-> color] \o << r >>
Lines ==
    { LineCells(color, m, l, r) :
        color \in Colors, m \in 0 .. 5, l \in {EMPTY, BLACK, WHITE}, r \in {EMPTY, BLACK, WHITE} }
CellOfLine(start, d, k) ==
    << start[1] + (k - 1) * Directions[d][1], start[2] + (k - 1) * Directions[d][2] >>
LineBoard(n, start, d, cells) ==
    [i \in Idx(n) |-> [j \in Idx(n) |->
        IF \E k \in 1 .. Len(cells) : CellOfLine(start, d, k) = << i, j >>
        THEN cells[CHOOSE k \in 1 .. Len(cells) : CellOfLine(start, d, k) = << i, j >>]
        ELSE EMPTY]]
\* First cells that put a line at a border, in a corner, or with a
\* neighbour at the centre.
AnchorCoords(n) == {-1, 0, 4, 5, n - 6, n}
LineFits(n, start, d, cells) ==
    /\ \A k \in 2 .. Len(cells) - 1 :
          OnBoard(n, CellOfLine(start, d, k)[1], CellOfLine(start, d, k)[2])
    /\ \E k \in 1 .. Len(cells) :
          OnBoard(n, CellOfLine(start, d, k)[1], CellOfLine(start, d, k)[2])
EvalBoards ==
    { LineBoard(EvalSize, t[1], t[2], t[3]) :
        t \in { u \in (AnchorCoords(EvalSize) \X AnchorCoords(EvalSize))
                        \X (1 .. 4) \X Lines :
                  LineFits(EvalSize, u[1], u[2], u[3]) } }

(* -------------------------------- state -------------------------------- *)
VARIABLES
    ai,                   \* the engine object: its kind, colour and tuning
    pc,                   \* "idle", "minimax", "mcts", "done" or "failed"
    heap,                 \* the board objects; heap[1] is the caller's board
    input,                \* contents of the caller's board when move() was called
    thinking_callback,    \* whether the caller passed a progress observer
    transposition_table,  \* BaseAI.transposition_table
    killer_moves,         \* MinimaxAI.killer_moves
    node_count,           \* MinimaxAI.node_count
    prune_count,          \* MinimaxAI.prune_count
    root,                 \* MCTSAI.root: the node arena, << >> for None
    frame,                \* the locals of the running move()
    result,               \* how the last move() ended
    notified,             \* the records the observer received in this call
    calls,                \* how many decision calls this engine has been given
    game                  \* the GameCore object, NoGame where no game is kept

vars == << ai, pc, heap, input, thinking_callback, transposition_table, killer_moves,
           node_count, prune_count, root, frame, result, notified, calls, game >>

NoResult == [status |-> "none", move |-> NoMove, error |-> NoError]
Returned(move) == [status |-> "returned", move |-> move, error |-> NoError]
Raised(error) == [status |-> "raised", move |-> NoMove, error |-> error]
NoFrame == [i |-> 0]
NoGame == [kind |-> "none"]

\* A newly constructed engine that has made no decision yet.
Fresh ==
    /\ pc = "idle"
    /\ heap = << >>
    /\ input = << >>
    /\ thinking_callback = FALSE
    /\ transposition_table = EmptyMap
    /\ killer_moves = EmptyMap
    /\ node_count = 0
    /\ prune_count = 0
    /\ root = << >>
    /\ frame = NoFrame
    /\ result = NoResult
    /\ notified = << >>
    /\ calls = 0
    /\ game = NoGame

InitMinimax ==
    /\ \E color \in Colors, level \in AI_LEVELS : ai = MinimaxAI(color, level)
    /\ Fresh

InitMCTS ==
    /\ \E color \in Colors, level \in AI_LEVELS : ai = MCTSAI(color, level)
    /\ Fresh

Init == InitMinimax \/ InitMCTS

Resting == pc \in {"idle", "done", "failed"}

\* The caller's board after the caller has placed the stone the engine
\* returned and the other side has answered at cell.
BoardAfter(cell) ==
    LET h1 == SetCell(heap, CallerRef, result.move[1], result.move[2], ai.color)
    IN  SetCell(h1, CallerRef, cell[1], cell[2], ai.opponent_color)[CallerRef]

Answers ==
    IF pc = "done"
    THEN { c \in Idx(BoardSize) \X Idx(BoardSize) :
             heap[CallerRef][c[1]][c[2]] = EMPTY /\ c # result.move }
    ELSE {}

\* An observer that is told the first record only.
NotifyFirstOnly(callback, log, data) ==
    IF callback /\ log = << >> THEN Append(log, data) ELSE log

\* _notify_thinking: the observer, when there is one, receives the record.
_notify_thinking(callback, log, data) == IF callback THEN Append(log, data) ELSE log

\* set_level(level) between two decision calls.
SetLevel(level) ==
    /\ Resting
    /\ ai' = IF ai.kind = "minimax" THEN MinimaxAI_set_level(ai, level)
             ELSE MCTSAI_set_level(ai, level)
    /\ UNCHANGED << pc, heap, input, thinking_callback, transposition_table, killer_moves,
                    node_count, prune_count, root, frame, result, notified, calls, game >>

(* ---------------------------- MinimaxAI.move -------------------------- *)
\* move(board, callback) up to the first root candidate: the resets, the
\* full-board check, the root ordering and the first progress record.
MinimaxMoveBegin(board, callback) ==
    /\ ai.kind = "minimax"
    /\ calls' = calls + 1
    /\ UNCHANGED game
    /\ input' = board
    /\ thinking_callback' = callback
    /\ transposition_table' = clear_cache(transposition_table)
    /\ node_count' = 0
    /\ prune_count' = 0
    /\ killer_moves' = EmptyMap
    /\ root' = root
    /\ ai' = ai
    /\ Let(_get_empty_positions(ai.board_size, board), LAMBDA empty_positions :
           IF empty_positions = << >>
           THEN /\ pc' = "failed"
                /\ result' = Raised(Raise(MinimaxNames, "AIError", 4101))
                /\ heap' = << board >>
                /\ frame' = NoFrame
                /\ notified' = << >>
           ELSE Let(IF ai.move_ordering_enabled
                    THEN _order_moves(ai, EmptyMap, << board >>, CallerRef, empty_positions,
                                      TRUE, 0)
                    ELSE [moves |-> empty_positions, heap |-> << board >>], LAMBDA om :
                    /\ pc' = "minimax"
                    /\ result' = NoResult
                    /\ heap' = om.heap
                    /\ frame' = [i |-> 0, empty_positions |-> om.moves,
                                 best_score |-> 0 - Inf, best_move |-> om.moves[1],
                                 score |-> 0 - Inf]
                    /\ notified' = _notify_thinking(callback, << >>,
                                       [iteration |-> 0, best_move |-> NoMove, depth |-> 0])))

RECURSIVE ScoreTop(_, _, _, _, _)
\* scores[nx][ny] = evaluate_position(board, nx, ny, color) for the first ten.
ScoreTop(self, h, moves, k, last) ==
    IF k > last THEN h
    ELSE ScoreTop(self,
                  evaluate_position(self.evaluator, h, CallerRef, moves[k][1], moves[k][2],
                                    self.color).heap,
                  moves, k + 1, last)

\* One pass of the loop over the root candidates; the last pass returns.
MinimaxRootStep ==
    /\ pc = "minimax"
    /\ LET i == frame.i
           moves == frame.empty_positions
           x == moves[i + 1][1]
           y == moves[i + 1][2]
           last == i + 1 = Len(moves)
       IN  Let(_copy_board(heap, CallerRef), LAMBDA cp :
           Let(_alpha_beta(ai,
                           [heap |-> SetCell(cp.heap, cp.ref, x, y, ai.color),
                            tt |-> transposition_table, killer_moves |-> killer_moves,
                            node_count |-> node_count, prune_count |-> prune_count],
                           cp.ref, ai.max_depth - 1, 0 - Inf, Inf, FALSE, 1), LAMBDA r :
           Let(r.score > frame.best_score, LAMBDA better :
           Let(IF better THEN << x, y >> ELSE frame.best_move, LAMBDA best_move :
           /\ transposition_table' = r.S.tt
           /\ killer_moves' = r.S.killer_moves
           /\ node_count' = r.S.node_count
           /\ prune_count' = r.S.prune_count
           /\ heap' = ScoreTop(ai, Release(r.S.heap, Len(heap)), moves, 1, Min(10, Len(moves)))
           /\ frame' = [frame EXCEPT !.i = i + 1,
                                     !.best_score = IF better THEN r.score ELSE @,
                                     !.best_move = best_move,
                                     !.score = r.score]
           /\ notified' = _notify_thinking(thinking_callback, notified,
                              [iteration |-> i + 1, best_move |-> best_move,
                               depth |-> ai.max_depth])
           /\ pc' = IF last THEN "done" ELSE "minimax"
           /\ result' = IF last THEN Returned(best_move) ELSE result))))
    /\ UNCHANGED << ai, input, thinking_callback, root, calls, game >>

RECURSIVE MinimaxRootLoop(_, _, _, _, _, _)
\* The loop of MinimaxAI.move over the root candidates from the k-th on.
MinimaxRootLoop(self, S, moves, k, best_score, best_move) ==
    IF k > Len(moves) THEN best_move
    ELSE Let(_copy_board(S.heap, CallerRef), LAMBDA cp :
         Let(_alpha_beta(self,
                         [S EXCEPT !.heap = SetCell(cp.heap, cp.ref, moves[k][1], moves[k][2],
                                                    self.color)],
                         cp.ref, self.max_depth - 1, 0 - Inf, Inf, FALSE, 1), LAMBDA r :
             MinimaxRootLoop(self,
                             [r.S EXCEPT !.heap = ScoreTop(self, Release(@, Len(S.heap)), moves,
                                                           1, Min(10, Len(moves)))],
                             moves, k + 1,
                             IF r.score > best_score THEN r.score ELSE best_score,
                             IF r.score > best_score THEN moves[k] ELSE best_move)))

\* MinimaxAI.move(board) as one function: how the call ends on an engine
\* whose cache, killer moves and counters are those the call itself sets up.
MinimaxAI_move(self, board) ==
    Let(_get_empty_positions(self.board_size, board), LAMBDA empty_positions :
        IF empty_positions = << >> THEN Raised(Raise(MinimaxNames, "AIError", 4101))
        ELSE Let(IF self.move_ordering_enabled
                 THEN _order_moves(self, EmptyMap, << board >>, CallerRef, empty_positions,
                                   TRUE, 0)
                 ELSE [moves |-> empty_positions, heap |-> << board >>], LAMBDA om :
                 Returned(MinimaxRootLoop(self,
                                          [heap |-> om.heap, tt |-> EmptyMap,
                                           killer_moves |-> EmptyMap, node_count |-> 0,
                                           prune_count |-> 0],
                                          om.moves, 1, 0 - Inf, om.moves[1]))))

RECURSIVE _find_node_by_board(_, _, _, _)
RECURSIVE FindAmongChildren(_, _, _, _, _)
\* MCTSAI._find_node_by_board: the first node, parents before children, whose
\* board has the cell values of target_board; 0 for None.
_find_node_by_board(tree, h, k, target_board) ==
    IF h[tree[k].board] = target_board THEN k
    ELSE FindAmongChildren(tree, h, tree[k].children, 1, target_board)

FindAmongChildren(tree, h, children, j, target_board) ==
    IF j > Len(children) THEN 0
    ELSE Let(_find_node_by_board(tree, h, children[j], target_board), LAMBDA found :
             IF found # 0 THEN found
             ELSE FindAmongChildren(tree, h, children, j + 1, target_board))

\* MCTSAI.evaluate(board) with self.root = tree (<< >> for None).
MCTS_evaluate(self, tree, h, ref) ==
    IF tree = << >> THEN evaluate_board(self.evaluator, h, ref, self.color).score
    ELSE Let(_find_node_by_board(tree, h, 1, h[ref]), LAMBDA k :
             IF k # 0
             THEN IF tree[k].visits > 0 THEN (tree[k].value * Scale) \div tree[k].visits ELSE 0
             ELSE evaluate_board(self.evaluator, h, ref, self.color).score)

(* ------------------------------ MCTSAI.move --------------------------- *)
\* move(board, callback) up to the loop: the new root on the caller's board
\* and the scan for an immediately winning cell, which returns at once.
MCTSMoveBegin(board, callback) ==
    /\ ai.kind = "mcts"
    /\ calls' = calls + 1
    /\ input' = board
    /\ thinking_callback' = callback
    /\ root' = << MCTSNode(<< board >>, CallerRef, 0, NoMove) >>
    /\ Let(_check_winning_move(ai, << board >>), LAMBDA w :
           /\ heap' = w.heap
           /\ IF w.move # NoMove
              THEN /\ notified' = _notify_thinking(callback, << >>,
                                      [iteration |-> ai.iterations, best_move |-> w.move,
                                       depth |-> 0])
                   /\ pc' = "done"
                   /\ result' = Returned(w.move)
                   /\ frame' = NoFrame
              ELSE /\ notified' = << >>
                   /\ pc' = "mcts"
                   /\ result' = NoResult
                   /\ frame' = NoFrame)
    /\ UNCHANGED << ai, transposition_table, killer_moves, node_count, prune_count, game >>

\* One pass of the loop: select, expand (with random index r), simulate,
\* backpropagate, and the progress record every 100 passes and on the last
\* pass; the last pass returns the best move.
MCTSIterate ==
    /\ pc = "mcts"
    /\ LET i == frame.i
           report == (i + 1) % 100 = 0 \/ i = ai.iterations - 1
           last == i = ai.iterations - 1
       IN  Let(_select_node(ai, root, heap, 1), LAMBDA sel :
           Let(/\ ~is_terminal(root[sel], heap, ai.board_size).terminal
               /\ root[sel].untried_moves # << >>, LAMBDA grows :
           \E r \in 0 .. (IF grows THEN Len(root[sel].untried_moves) - 1 ELSE 0) :
             Let(IF grows
                 THEN expand(root, heap, sel,
                             IF root[sel].parent # 0 THEN ai.color ELSE ai.opponent_color, r)
                 ELSE [tree |-> root, heap |-> heap, node |-> sel], LAMBDA ex :
             Let(_simulate(ai, ex.tree, ex.heap, ex.node), LAMBDA sim :
             Let(backpropagate(ex.tree, ex.node, sim.result, ai.color), LAMBDA tree :
             Let(_get_best_move(ai, tree, sim.heap), LAMBDA best :
                 /\ root' = tree
                 /\ heap' = sim.heap
                 /\ frame' = [i |-> i + 1, node |-> ex.node, placed |-> sim.placed,
                               simulated |-> sim.result]
                 /\ IF report /\ best.error # NoError
                    THEN /\ pc' = "failed"
                         /\ result' = Raised(best.error)
                         /\ notified' = notified
                    ELSE /\ notified' = IF report
                                        THEN _notify_thinking(thinking_callback, notified,
                                                 [iteration |-> i + 1, best_move |-> best.move,
                                                  depth |-> _get_tree_depth(tree, 1)])
                                        ELSE notified
                         /\ pc' = IF last THEN "done" ELSE "mcts"
                         /\ result' = IF last THEN Returned(best.move) ELSE result))))))
    /\ UNCHANGED << ai, input, thinking_callback, transposition_table, killer_moves,
                    node_count, prune_count, calls, game >>

(* ----------------- the evaluator and the win check -------------------- *)
\* An evaluator of side EvalSize with a board to judge.
Evaluating == [kind |-> "evaluator", board_size |-> EvalSize,
               evaluator |-> BoardEvaluator(EvalSize)]

InitEval ==
    /\ ai = Evaluating
    /\ pc = "given"
    /\ input \in EvalBoards
    /\ heap = << input >>
    /\ thinking_callback = FALSE
    /\ transposition_table = EmptyMap
    /\ killer_moves = EmptyMap
    /\ node_count = 0
    /\ prune_count = 0
    /\ root = << >>
    /\ frame = NoFrame
    /\ result = NoResult
    /\ notified = << >>
    /\ calls = 0
    /\ game = NoGame

Outcome(op, x, y, color, value, win, line) ==
    [i |-> 0, op |-> op, x |-> x, y |-> y, color |-> color, value |-> value,
     win |-> win, line |-> line]

\* An empty cell with a stone next to it.
NextToStone(n, b, x, y) ==
    /\ b[x][y] = EMPTY
    /\ \E dx \in -1 .. 1, dy \in -1 .. 1 :
          OnBoard(n, x + dx, y + dy) /\ b[x + dx][y + dy] # EMPTY

\* evaluate_board(board, color)
EvaluateBoard ==
    /\ pc = "given"
    /\ \E color \in Colors :
         Let(evaluate_board(ai.evaluator, heap, CallerRef, color), LAMBDA e :
             /\ heap' = e.heap
             /\ frame' = Outcome("evaluate_board", 0, 0, color, e.score, FALSE, << >>))
    /\ pc' = "evaluated"
    /\ UNCHANGED << ai, input, thinking_callback, transposition_table, killer_moves,
                    node_count, prune_count, root, result, notified, calls, game >>

\* evaluate_position(board, x, y, color)
EvaluatePosition ==
    /\ pc = "given"
    /\ \E x \in Idx(EvalSize), y \in Idx(EvalSize), color \in Colors :
         /\ NextToStone(EvalSize, input, x, y)
         /\ Let(evaluate_position(ai.evaluator, heap, CallerRef, x, y, color), LAMBDA e :
                 /\ heap' = e.heap
                 /\ frame' = Outcome("evaluate_position", x, y, color, e.score, FALSE, << >>))
    /\ pc' = "evaluated"
    /\ UNCHANGED << ai, input, thinking_callback, transposition_table, killer_moves,
                    node_count, prune_count, root, result, notified, calls, game >>

\* _is_win(board, color)
IsWin ==
    /\ pc = "given"
    /\ \E color \in Colors :
         Let(_is_win(ai.board_size, heap[CallerRef], color), LAMBDA w :
             frame' = Outcome("_is_win", 0, 0, color, 0, w.win, w.line))
    /\ pc' = "evaluated"
    /\ UNCHANGED << ai, heap, input, thinking_callback, transposition_table, killer_moves,
                    node_count, prune_count, root, result, notified, calls, game >>

NextEval == EvaluateBoard \/ EvaluatePosition \/ IsWin

SpecEval == InitEval /\ [][NextEval]_vars

\* The pattern test alone, on every line segment of nine cells.
InitPattern ==
    /\ ai = Evaluating
    /\ pc = "given"
    /\ input \in [1 .. 9 -> {EMPTY, BLACK, WHITE}]
    /\ heap = << >>
    /\ thinking_callback = FALSE
    /\ transposition_table = EmptyMap
    /\ killer_moves = EmptyMap
    /\ node_count = 0
    /\ prune_count = 0
    /\ root = << >>
    /\ frame = NoFrame
    /\ result = NoResult
    /\ notified = << >>
    /\ calls = 0
    /\ game = NoGame

\* _match_pattern(segment, color)
MatchPattern ==
    /\ pc = "given"
    /\ \E color \in Colors :
         frame' = Outcome("_match_pattern", 0, 0, color, _match_pattern(input, color),
                          FALSE, << >>)
    /\ pc' = "evaluated"
    /\ UNCHANGED << ai, heap, input, thinking_callback, transposition_table, killer_moves,
                    node_count, prune_count, root, result, notified, calls, game >>

SpecPattern == InitPattern /\ [][MatchPattern]_vars

(* ------------------------------- GameCore ------------------------------ *)
\* GameCore.__init__: an empty board, no history, the game not active,
\* black to move, no mode chosen.
GameCore(n) ==
    [kind |-> "game", board_size |-> n,
     board |-> [i \in Idx(n) |-> [j \in Idx(n) |-> EMPTY]],
     move_history |-> << >>, game_active |-> FALSE, current_player |-> BLACK,
     current_mode |-> "none", ai_first |-> FALSE, current_ai |-> [kind |-> "none"]]

\* The mode the modelled games are played in: against the engine.
GAME_MODES == {"pve"}

\* What a GameCore method handed back: the object and the value returned.
Handed(self, returned) == [self |-> self, returned |-> returned]

\* The player who moves first in a game.
FirstPlayer(self) == IF self.ai_first THEN WHITE ELSE BLACK

\* GameCore.reset_game
reset_game(self) ==
    [self EXCEPT !.board = [i \in Idx(self.board_size) |->
                               [j \in Idx(self.board_size) |-> EMPTY]],
                 !.move_history = << >>,
                 !.game_active = FALSE,
                 !.current_player = FirstPlayer(self)]

\* GameCore._init_ai: the engine takes white when it moves first, else black.
_init_ai(self) ==
    [self EXCEPT !.current_ai = [kind |-> "engine",
                                 color |-> IF self.ai_first THEN WHITE ELSE BLACK]]

\* GameCore.set_mode
set_mode(self, mode) ==
    reset_game(IF mode = "pve" THEN _init_ai([self EXCEPT !.current_mode = mode])
               ELSE [self EXCEPT !.current_mode = mode])

\* GameCore.set_ai_first
set_ai_first(self, ai_first) ==
    IF self.current_mode = "pve" THEN _init_ai([self EXCEPT !.ai_first = ai_first])
    ELSE [self EXCEPT !.ai_first = ai_first]

\* GameCore.start_game: GameError 2002 when no mode was chosen.
start_game(self) ==
    IF self.current_mode = "none"
    THEN Handed(self, "GameError")
    ELSE Handed([self EXCEPT !.game_active = TRUE,
                             !.current_player = FirstPlayer(self)], "None")

\* GameCore.stop_game
stop_game(self) == [self EXCEPT !.game_active = FALSE]

\* The entry place_piece appends to the move history.
MoveRecord(x, y, color, is_ai) == [x |-> x, y |-> y, color |-> color, is_ai |-> is_ai]

\* A place_piece that does not look at the target cell.
PlaceOverStones(self, x, y, is_ai) ==
    IF ~self.game_active THEN Handed(self, "game_not_active")
    ELSE IF x < 0 \/ x >= self.board_size \/ y < 0 \/ y >= self.board_size
    THEN Handed(self, "invalid_position")
    ELSE IF ~is_ai /\ self.current_player # BLACK
    THEN Handed(self, "not_your_turn")
    ELSE Handed([self EXCEPT !.board[x][y] = self.current_player,
                             !.move_history = Append(@, MoveRecord(x, y, self.current_player, is_ai)),
                             !.current_player = Opponent(self.current_player)],
                "success")

\* GameCore.place_piece
place_piece(self, x, y, is_ai) ==
    IF ~self.game_active THEN Handed(self, "game_not_active")
    ELSE IF x < 0 \/ x >= self.board_size \/ y < 0 \/ y >= self.board_size
    THEN Handed(self, "invalid_position")
    ELSE IF self.board[x][y] # EMPTY
    THEN Handed(self, "occupied")
    ELSE IF ~is_ai /\ self.current_player # BLACK
    THEN Handed(self, "not_your_turn")
    ELSE Handed([self EXCEPT !.board[x][y] = self.current_player,
                             !.move_history = Append(@, MoveRecord(x, y, self.current_player, is_ai)),
                             !.current_player = Opponent(self.current_player)],
                "success")

\* GameCore.ai_move, the engine answering (x, y): GameError 2003 when the
\* game is not active or there is no engine, GameError 2004 when the player
\* to move has not the engine's colour; else the stone is placed as the
\* engine's and the cell returned.
ai_move(self, x, y) ==
    IF ~self.game_active \/ self.current_ai.kind = "none" THEN Handed(self, "GameError2003")
    ELSE IF self.current_player # self.current_ai.color THEN Handed(self, "GameError2004")
    ELSE Handed(place_piece(self, x, y, TRUE).self, << x, y >>)

\* The coordinates a caller may present: the board and one step outside it.
Coords(n) == -1 .. n

\* The last method call on the game: its arguments and the value returned.
Call(op, args, returned) == [i |-> 0, op |-> op, args |-> args, returned |-> returned]

InitGame ==
    /\ game = GameCore(GameSize)
    /\ ai = [kind |-> "none"]
    /\ pc = "game"
    /\ heap = << >>
    /\ input = << >>
    /\ thinking_callback = FALSE
    /\ transposition_table = EmptyMap
    /\ killer_moves = EmptyMap
    /\ node_count = 0
    /\ prune_count = 0
    /\ root = << >>
    /\ frame = Call("__init__", << >>, "None")
    /\ result = NoResult
    /\ notified = << >>
    /\ calls = 0

SetMode(mode) ==
    /\ game' = set_mode(game, mode)
    /\ frame' = Call("set_mode", << mode >>, "None")
    /\ UNCHANGED << ai, pc, heap, input, thinking_callback, transposition_table, killer_moves,
                    node_count, prune_count, root, result, notified, calls >>

SetAiFirst(ai_first) ==
    /\ game' = set_ai_first(game, ai_first)
    /\ frame' = Call("set_ai_first", << ai_first >>, "None")
    /\ UNCHANGED << ai, pc, heap, input, thinking_callback, transposition_table, killer_moves,
                    node_count, prune_count, root, result, notified, calls >>

StartGame ==
    /\ game' = start_game(game).self
    /\ frame' = Call("start_game", << >>, start_game(game).returned)
    /\ UNCHANGED << ai, pc, heap, input, thinking_callback, transposition_table, killer_moves,
                    node_count, prune_count, root, result, notified, calls >>

StopGame ==
    /\ game' = stop_game(game)
    /\ frame' = Call("stop_game", << >>, "None")
    /\ UNCHANGED << ai, pc, heap, input, thinking_callback, transposition_table, killer_moves,
                    node_count, prune_count, root, result, notified, calls >>

ResetGame ==
    /\ game' = reset_game(game)
    /\ frame' = Call("reset_game", << >>, "None")
    /\ UNCHANGED << ai, pc, heap, input, thinking_callback, transposition_table, killer_moves,
                    node_count, prune_count, root, result, notified, calls >>

\* place_piece(x, y, is_ai); the history is kept within MaxMoves entries.
PlacePiece(x, y, is_ai) ==
    /\ Len(place_piece(game, x, y, is_ai).self.move_history) <= MaxMoves
    /\ game' = place_piece(game, x, y, is_ai).self
    /\ frame' = Call("place_piece", << x, y, is_ai >>, place_piece(game, x, y, is_ai).returned)
    /\ UNCHANGED << ai, pc, heap, input, thinking_callback, transposition_table, killer_moves,
                    node_count, prune_count, root, result, notified, calls >>

\* ai_move(); the engine answers with an empty cell of the board.
AiMove ==
    \E x \in Idx(GameSize), y \in Idx(GameSize) :
        /\ game.board[x][y] = EMPTY
        /\ Len(ai_move(game, x, y).self.move_history) <= MaxMoves
        /\ game' = ai_move(game, x, y).self
        /\ frame' = Call("ai_move", << >>, ai_move(game, x, y).returned)
        /\ UNCHANGED << ai, pc, heap, input, thinking_callback, transposition_table,
                        killer_moves, node_count, prune_count, root, result, notified, calls >>

NextGame ==
    \/ \E mode \in GAME_MODES : SetMode(mode)
    \/ \E ai_first \in BOOLEAN : SetAiFirst(ai_first)
    \/ StartGame
    \/ StopGame
    \/ ResetGame
    \/ \E x \in Coords(GameSize), y \in Coords(GameSize), is_ai \in BOOLEAN : PlacePiece(x, y, is_ai)
    \/ AiMove

SpecGame == InitGame /\ [][NextGame]_vars

(* ------------------------------- the caller --------------------------- *)
\* The first decision call on an engine, on any input board.
FirstMinimaxMove ==
    /\ pc = "idle"
    /\ \E board \in MinimaxBoards, callback \in BOOLEAN : MinimaxMoveBegin(board, callback)

\* The caller of the MCTS engine passes its progress observer.
FirstMCTSMove ==
    /\ pc = "idle"
    /\ \E board \in MCTSBoards : MCTSMoveBegin(board, TRUE)

\* The next decision call of a game: the board is the one of the last call
\* with the engine's stone and the other side's answer on it.
NextMinimaxMove ==
    /\ pc = "done"
    /\ \E cell \in Answers : MinimaxMoveBegin(BoardAfter(cell), thinking_callback)

NextMCTSMove ==
    /\ pc = "done"
    /\ \E cell \in Answers : MCTSMoveBegin(BoardAfter(cell), thinking_callback)

Next ==
    \/ \E level \in AI_LEVELS : SetLevel(level)
    \/ FirstMinimaxMove
    \/ NextMinimaxMove
    \/ MinimaxRootStep
    \/ FirstMCTSMove
    \/ NextMCTSMove
    \/ MCTSIterate

Spec == Init /\ [][Next]_vars

\* The alpha-beta engine alone, and the MCTS engine alone.
NextMinimax ==
    \/ \E level \in AI_LEVELS : SetLevel(level)
    \/ FirstMinimaxMove
    \/ NextMinimaxMove
    \/ MinimaxRootStep

NextMCTS ==
    \/ \E level \in AI_LEVELS : SetLevel(level)
    \/ FirstMCTSMove
    \/ NextMCTSMove
    \/ MCTSIterate

SpecMinimax == InitMinimax /\ [][NextMinimax]_vars

\* The alpha-beta engine called once on a board of a game in its last moves.
FirstSearchMove ==
    /\ pc = "idle"
    /\ \E board \in MixedBoards(BoardSize) : MinimaxMoveBegin(board, FALSE)

NextSearch == FirstSearchMove \/ MinimaxRootStep

SpecSearch == InitMinimax /\ [][NextSearch]_vars
SpecMCTS == InitMCTS /\ [][NextMCTS]_vars

\* The first passes of the loop of an MCTS call on a board with more open
\* cells.
RolloutBoards == InputBoards(BoardSize, RolloutSlots)

FirstRolloutMove ==
    /\ pc = "idle"
    /\ \E board \in RolloutBoards : MCTSMoveBegin(board, FALSE)

FirstPasses ==
    /\ frame.i < RolloutPasses
    /\ MCTSIterate

NextRollout == FirstRolloutMove \/ FirstPasses

SpecRollout == InitMCTS /\ [][NextRollout]_vars

(* ------------------------------ properties ---------------------------- *)
Cells == Idx(BoardSize) \X Idx(BoardSize)

Place(b, cell, color) == [b EXCEPT ![cell[1]][cell[2]] = color]

\* Five in a line of color somewhere on b.
HasFive(b, color) ==
    \E k \in 1 .. Len(BoardRuns) : \A m \in 1 .. 5 : b[BoardRuns[k][m][1]][BoardRuns[k][m][2]] = color

NoFive(b) == ~HasFive(b, BLACK) /\ ~HasFive(b, WHITE)

EmptyCells(b) == { c \in Cells : b[c[1]][c[2]] = EMPTY }

\* The empty cells where a stone of color completes five.
WinningCells(b, color) == { c \in EmptyCells(b) : HasFive(Place(b, c, color), color) }

\* The first cell of a non-empty set in row-major order.
FirstRowMajor(S) ==
    CHOOSE c \in S : \A d \in S : c[1] * BoardSize + c[2] <= d[1] * BoardSize + d[2]

MinimaxReturned == ai.kind = "minimax" /\ pc = "done"
MCTSReturned == ai.kind = "mcts" /\ pc = "done"

\* C1: on a board without five where some empty cell completes five for the
\* engine, the move MinimaxAI.move returns is such a cell, at every depth.
C1_ImmediateWinTaken ==
    (MinimaxReturned /\ NoFive(input) /\ WinningCells(input, ai.color) # {})
        => result.move \in WinningCells(input, ai.color)

\* C2: on a board without five where the engine cannot win at once and the
\* opponent completes five at exactly one empty cell, MinimaxAI.move returns
\* that cell.
C2_SingleThreatBlocked ==
    (/\ MinimaxReturned
     /\ NoFive(input)
     /\ WinningCells(input, ai.color) = {}
     /\ Cardinality(WinningCells(input, ai.opponent_color)) = 1)
        => result.move \in WinningCells(input, ai.opponent_color)

\* C3: a decision call of either engine on a board with an empty cell ends
\* by returning a coordinate that is in bounds and empty on the input board.
C3_MoveOnEmptyCell ==
    (pc \in {"done", "failed"} /\ EmptyCells(input) # {})
        => /\ result.status = "returned"
           /\ result.move \in Cells
           /\ input[result.move[1]][result.move[2]] = EMPTY

\* A search of either engine that returned its choice on a board with several
\* empty cells.
C3_Witness ==
    /\ pc = "done"
    /\ Cardinality(EmptyCells(input)) >= 2
    /\ result.move \in EmptyCells(input)
    /\ \/ ai.kind = "minimax" /\ node_count > 0
       \/ ai.kind = "mcts" /\ root[1].children # << >>

\* C4: from the start of a decision call on, the caller's board holds what
\* it held when passed in, and evaluate_position and evaluate_board applied
\* to it leave every board as it was.
C4_CallerBoardUntouched ==
    /\ pc # "idle" => heap[CallerRef] = input
    /\ pc \in {"done", "failed"} =>
         \A color \in Colors :
           /\ evaluate_board(ai.evaluator, heap, CallerRef, color).heap = heap
           /\ \A c \in Cells :
                evaluate_position(ai.evaluator, heap, CallerRef, c[1], c[2], color).heap = heap

\* An MCTS call that built a tree two levels deep on boards of its own and
\* left the caller's board alone.
C4_Witness ==
    /\ MCTSReturned
    /\ Len(root) >= 3
    /\ \E k \in 2 .. Len(heap) : heap[k] # heap[CallerRef]
    /\ heap[CallerRef] = input

\* C5: when some empty cell completes five for the engine, MCTSAI.move
\* returns the first such cell in row-major order and runs no iteration:
\* the root has no visits and no children.
C5_WinShortcut ==
    (MCTSReturned /\ WinningCells(input, ai.color) # {})
        => /\ result.move = FirstRowMajor(WinningCells(input, ai.color))
           /\ frame.i = 0
           /\ Len(root) = 1
           /\ root[1].visits = 0
           /\ root[1].children = << >>

\* The shortcut taken on a board with two winning cells.
C5_Witness ==
    /\ MCTSReturned
    /\ Cardinality(WinningCells(input, ai.color)) >= 2
    /\ result.move = FirstRowMajor(WinningCells(input, ai.color))

BudgetSpent == MCTSReturned /\ frame.i = ai.iterations

\* The root child with the most visits, the first created among equals.
RobustChild(tree) ==
    LET kids == tree[1].children
    IN  tree[kids[CHOOSE k \in 1 .. Len(kids) :
                    \A j \in 1 .. Len(kids) :
                      /\ tree[kids[j]].visits <= tree[kids[k]].visits
                      /\ j < k => tree[kids[j]].visits < tree[kids[k]].visits]]

\* C6 as stated: after the budget MCTSAI.move always returns the move of
\* the most visited root child.
C6_RobustChildAlways ==
    BudgetSpent => /\ root[1].children # << >>
                   /\ result.move = RobustChild(root).move

\* C6: after the budget MCTSAI.move returns the move of the most visited
\* root child, the first created among equals, when the root has a child;
\* a root without children (its board already shows five) gives the first
\* empty cell in row-major order.
C6_RobustChildOrFirstEmpty ==
    BudgetSpent =>
        IF root[1].children # << >> THEN result.move = RobustChild(root).move
        ELSE /\ HasFive(input, BLACK) \/ HasFive(input, WHITE)
             /\ result.move = FirstRowMajor(EmptyCells(input))

\* The budget spent with a root child whose move is not the first empty cell.
C6_Witness ==
    /\ BudgetSpent
    /\ root[1].children # << >>
    /\ root[root[1].children[1]].visits > 0
    /\ result.move # FirstRowMajor(EmptyCells(input))

\* C7: MinimaxAI.move on a full board fails with AIError 4101, having
\* visited no node and told its observer nothing.
C7_FullBoardIllegalState ==
    (ai.kind = "minimax" /\ pc \in {"done", "failed"} /\ EmptyCells(input) = {})
        => /\ result.status = "raised"
           /\ result.error = [type |-> "AIError", code |-> 4101]
           /\ node_count = 0
           /\ notified = << >>

\* C8: MCTSAI.move on a full board fails with the engine's AIError.
C8_MCTSFullBoardIllegalState ==
    (ai.kind = "mcts" /\ pc \in {"done", "failed"} /\ EmptyCells(input) = {})
        => /\ result.status = "raised"
           /\ result.error.type = "AIError"

\* The difficulty table: search depth, iteration budget, rollout depth.
DifficultyTable ==
    [ easy |-> [depth |-> 3, iterations |-> 200, rollout |-> 3],
      medium |-> [depth |-> 4, iterations |-> 500, rollout |-> 4],
      hard |-> [depth |-> 5, iterations |-> 1000, rollout |-> 5],
      expert |-> [depth |-> 6, iterations |-> 2000, rollout |-> 6] ]

TuningOfRow(self, t) ==
    /\ self.level = t
    /\ self.max_depth = DifficultyTable[t].depth
    /\ self.kind = "mcts" => /\ self.iterations = DifficultyTable[t].iterations
                             /\ self.simulation_depth = DifficultyTable[t].rollout

\* The engine is as its constructor leaves an engine of its tier.
AsConstructed ==
    ai = IF ai.kind = "minimax" THEN MinimaxAI(ai.color, ai.level)
         ELSE MCTSAI(ai.color, ai.level)

\* C9: an engine as constructed at tier t has the tuning of the table row
\* of t.
C9_FreshTuning == AsConstructed => TuningOfRow(ai, ai.level)

MCTSChoice(color, board, tree) ==
    IF WinningCells(board, color) # {} THEN FirstRowMajor(WinningCells(board, color))
    ELSE IF Len(tree) >= 2 THEN tree[2].move
    ELSE FirstRowMajor(EmptyCells(board))

\* A step that begins a decision call, and a step with which one ends.
CallBegins == calls' = calls + 1
CallEnds == pc' \in {"done", "failed"} /\ (pc \in {"minimax", "mcts"} \/ CallBegins)

\* C11: a MinimaxAI.move call ends as the function of (board, colour, tier)
\* says, whatever calls the engine served before; an MCTSAI.move call starts
\* its search from the input board alone and returns the coordinate fixed by
\* the board, the colour and the random choices.
C11_MoveIsAFunctionOfItsInputs ==
    [][ /\ (ai.kind = "minimax" /\ CallEnds)
             => result' = MinimaxAI_move(MinimaxAI(ai.color, ai.level), input')
        /\ (ai.kind = "mcts" /\ CallBegins /\ pc' = "mcts")
             => /\ root' = << MCTSNode(<< input' >>, CallerRef, 0, NoMove) >>
                /\ heap' = << input' >>
        /\ (ai.kind = "mcts" /\ CallEnds /\ pc' = "done")
             => result'.move = MCTSChoice(ai.color, input', root') ]_vars

\* A later decision call of an alpha-beta engine that searched and returned.
C11_Witness ==
    /\ MinimaxReturned
    /\ calls >= 2
    /\ node_count > 1
    /\ Cardinality(EmptyCells(input)) >= 2

\* Five cells in a straight line from (x, y) in direction d, all on the
\* board of side n and all holding color.
FiveFrom(n, b, color, x, y, d) ==
    \A k \in 0 .. 4 :
        /\ OnBoard(n, x + k * Directions[d][1], y + k * Directions[d][2])
        /\ b[x + k * Directions[d][1]][y + k * Directions[d][2]] = color

FiveOn(n, b, color) ==
    \E x \in Idx(n), y \in Idx(n), d \in 1 .. 4 : FiveFrom(n, b, color, x, y, d)

Evaluated(op) == pc = "evaluated" /\ frame.op = op

EmptyBoard(n) == [i \in Idx(n) |-> [j \in Idx(n) |-> EMPTY]]

\* C12: on a board where neither colour has five in a line, evaluate_board
\* for one colour is the negation of evaluate_board for the other, and it
\* is 0 on the empty board.
C12_BoardScoreAntisymmetric ==
    (/\ Evaluated("evaluate_board")
     /\ ~FiveOn(EvalSize, input, BLACK)
     /\ ~FiveOn(EvalSize, input, WHITE))
        => /\ frame.value = 0 - evaluate_board(ai.evaluator, << input >>, CallerRef,
                                               Opponent(frame.color)).score
           /\ input = EmptyBoard(EvalSize) => frame.value = 0

\* A board with stones of both colours and no five, scored away from 0.
C12_Witness ==
    /\ Evaluated("evaluate_board")
    /\ ~FiveOn(EvalSize, input, BLACK)
    /\ ~FiveOn(EvalSize, input, WHITE)
    /\ \E x \in Idx(EvalSize), y \in Idx(EvalSize) : input[x][y] = BLACK
    /\ \E x \in Idx(EvalSize), y \in Idx(EvalSize) : input[x][y] = WHITE
    /\ frame.value > FOUR * Scale

\* line is five cells on the board, each one step in direction d from the
\* one before, all holding color.
StraightRun(n, b, color, line) ==
    /\ Len(line) = 5
    /\ \E d \in 1 .. 4 :
          /\ FiveFrom(n, b, color, line[1][1], line[1][2], d)
          /\ \A k \in 1 .. 5 : line[k] = CellOfLine(line[1], d, k)

\* C13: _is_win answers true, with five coordinates that form a straight
\* contiguous run of the colour, exactly when the board holds five
\* consecutive cells of the colour in a row, a column or a diagonal of
\* either direction; otherwise it answers false with an empty list.
C13_WinDetection ==
    Evaluated("_is_win")
        => /\ frame.win <=> FiveOn(EvalSize, input, frame.color)
           /\ frame.win => StraightRun(EvalSize, input, frame.color, frame.line)
           /\ ~frame.win => frame.line = << >>

\* A win found on the anti-diagonal that starts in the top right corner.
C13_Witness ==
    /\ Evaluated("_is_win")
    /\ frame.win
    /\ frame.line[1] = << 0, EvalSize - 1 >>
    /\ frame.line[5] = << 4, EvalSize - 5 >>

\* (x, y) is an empty cell next to an end of four contiguous stones of
\* color that run from it in direction d (forwards for sign 1, backwards
\* for sign -1), and the cell beyond the other end is empty too.
OpenFourEnd(n, b, color, x, y, d, sign) ==
    /\ b[x][y] = EMPTY
    /\ \A k \in 1 .. 4 :
          /\ OnBoard(n, x + sign * k * Directions[d][1], y + sign * k * Directions[d][2])
          /\ b[x + sign * k * Directions[d][1]][y + sign * k * Directions[d][2]] = color
    /\ OnBoard(n, x + sign * 5 * Directions[d][1], y + sign * 5 * Directions[d][2])
    /\ b[x + sign * 5 * Directions[d][1]][y + sign * 5 * Directions[d][2]] = EMPTY

\* The length-9 window centred on (x, y) in direction d lies on the board.
WindowFits(n, x, y, d) ==
    /\ Directions[d][1] # 0 => (x - 4 >= 0 /\ x + 4 < n)
    /\ Directions[d][2] # 0 => (y - 4 >= 0 /\ y + 4 < n)

\* b without the four stones that run from (x, y).
WithoutRun(n, b, x, y, d, sign) ==
    [i \in Idx(n) |-> [j \in Idx(n) |->
        IF \E k \in 1 .. 4 : << i, j >> = << x + sign * k * Directions[d][1],
                                             y + sign * k * Directions[d][2] >>
        THEN EMPTY ELSE b[i][j]]]

\* C14 as stated: at an end cell of an open four, evaluate_position returns
\* the open-four weight 100,000.
C14_OpenFourWeight ==
    Evaluated("evaluate_position")
        => \A d \in 1 .. 4, sign \in {-1, 1} :
             OpenFourEnd(EvalSize, input, frame.color, frame.x, frame.y, d, sign)
                 => frame.value = FOUR * Scale

\* C14 amended: at an end cell of an open four the placement completes a
\* five.  When the window along the line fits on the board the result is at
\* least the five weight times the position weight of the cell; when it
\* does not fit, the four stones do not enter the result at all.
C14_FiveAtOpenFourEnd ==
    Evaluated("evaluate_position")
        => \A d \in 1 .. 4, sign \in {-1, 1} :
             OpenFourEnd(EvalSize, input, frame.color, frame.x, frame.y, d, sign)
                 => IF WindowFits(EvalSize, frame.x, frame.y, d)
                    THEN /\ frame.value >= FIVE * PositionWeight(EvalSize, frame.x, frame.y)
                         /\ frame.value >= FIVE * (Scale \div 2)
                    ELSE frame.value =
                           evaluate_position(ai.evaluator,
                               << WithoutRun(EvalSize, input, frame.x, frame.y, d, sign) >>,
                               CallerRef, frame.x, frame.y, frame.color).score

\* The end cell of a diagonal open four whose window fits, scored.
C14_Witness ==
    /\ Evaluated("evaluate_position")
    /\ OpenFourEnd(EvalSize, input, frame.color, frame.x, frame.y, 3, 1)
    /\ WindowFits(EvalSize, frame.x, frame.y, 3)
    /\ frame.value >= FIVE * PositionWeight(EvalSize, frame.x, frame.y)

(* ---- C15 ---- *)
\* The reasons place_piece has to refuse (x, y, is_ai) in the present state;
\* the human plays black, so a human is out of turn when white is to move.
Refusals(x, y, is_ai) ==
    (IF ~game.game_active THEN {"game_not_active"} ELSE {})
    \cup (IF ~OnBoard(game.board_size, x, y) THEN {"invalid_position"} ELSE {})
    \cup (IF OnBoard(game.board_size, x, y) /\ game.board[x][y] # EMPTY
          THEN {"occupied"} ELSE {})
    \cup (IF ~is_ai /\ game.current_player # BLACK THEN {"not_your_turn"} ELSE {})

\* C15: a call of place_piece that has a reason to be refused returns one
\* of the error results that apply to it and leaves the board, the move
\* history and the current player as they were; and no call of place_piece
\* changes a cell that holds a stone.
C15_RejectedPlacementChangesNothing ==
    [][frame'.op = "place_piece" =>
          /\ Refusals(frame'.args[1], frame'.args[2], frame'.args[3]) # {} =>
                /\ frame'.returned \in Refusals(frame'.args[1], frame'.args[2], frame'.args[3])
                /\ game'.board = game.board
                /\ game'.move_history = game.move_history
                /\ game'.current_player = game.current_player
          /\ \A i \in Idx(GameSize), j \in Idx(GameSize) :
                game.board[i][j] # EMPTY => game'.board[i][j] = game.board[i][j]]_vars

\* A placement on an occupied cell was refused on a board with stones of
\* both colours.
C15_Witness ==
    /\ pc = "game"
    /\ frame.op = "place_piece"
    /\ frame.returned = "occupied"
    /\ game.board[frame.args[1]][frame.args[2]] = WHITE
    /\ game.game_active
    /\ \A color \in Colors : \E k \in 1 .. Len(game.move_history) :
          game.move_history[k].color = color

(* ---- C16 ---- *)
RECURSIVE PassedOver(_, _)
\* The nodes selection went through on its way to node k: its ancestors.
PassedOver(tree, k) ==
    IF tree[k].parent = 0 THEN {}
    ELSE {tree[k].parent} \cup PassedOver(tree, tree[k].parent)

\* The node the next pass of the loop selects.
Selected == _select_node(ai, root, heap, 1)

\* C16: while the loop runs, every node the next selection passes through
\* on its way to the selected node has no untried move left.
C16_SelectionStopsAtUntried ==
    pc = "mcts" => \A k \in PassedOver(root, Selected) : root[k].untried_moves = << >>

(* ---- C17 ---- *)
\* The depth of node k: the root has depth 0.
DepthOf(tree, k) == Cardinality(PassedOver(tree, k))

\* The colour of the stone whose placement created node k.
PlacedBy(k) == heap[root[k].board][root[k].move[1]][root[k].move[2]]

\* C17: in the tree of an MCTS engine, the stone that created a node of odd
\* depth has the engine's colour and the stone that created a node of even
\* depth has the opponent's colour; so a child of the root has the engine's.
C17_ExpansionColourByDepth ==
    ai.kind = "mcts" =>
        \A k \in 2 .. Len(root) :
            PlacedBy(k) = IF DepthOf(root, k) % 2 = 1 THEN ai.color ELSE ai.opponent_color

(* ---- C18 ---- *)
\* Every node of the tree has at most one child.
SingleChain == \A k \in 1 .. Len(root) : Len(root[k].children) <= 1

\* C18 as stated: the tree of an MCTS engine is a single chain, and a call
\* that spent its budget returns the move of the node the first pass
\* created, the only child of the root.
C18_ChainAndFirstPop ==
    ai.kind = "mcts" =>
        /\ SingleChain
        /\ BudgetSpent =>
              /\ root[1].children = << 2 >>
              /\ result.move = root[2].move

\* C18: the tree of an MCTS engine is a single chain; a call that spent its
\* budget returns the move of the node the first pass created, the only
\* child of the root, when the root was expanded, and otherwise, the input
\* board showing five in a row, the first empty cell of the input board.
C18_ChainAndFirstPopOrFirstEmpty ==
    ai.kind = "mcts" =>
        /\ SingleChain
        /\ BudgetSpent =>
              IF Len(root) >= 2
              THEN /\ root[1].children = << 2 >>
                   /\ result.move = root[2].move
              ELSE /\ HasFive(input, BLACK) \/ HasFive(input, WHITE)
                   /\ result.move = FirstRowMajor(EmptyCells(input))

\* The budget spent on a chain of three nodes under a root that keeps
\* untried moves, the move returned not being the first empty cell.
C18_Witness ==
    /\ BudgetSpent
    /\ Len(root) >= 4
    /\ root[1].untried_moves # << >>
    /\ result.move = root[2].move
    /\ result.move # FirstRowMajor(EmptyCells(input))

(* ---- C19 ---- *)
\* C19: a node of the tree is reported terminal exactly when its board
\* shows five in a row of some colour or has no empty cell.
C19_TerminalIffFiveOrFull ==
    ai.kind = "mcts" =>
        \A k \in 1 .. Len(root) :
            is_terminal(root[k], heap, ai.board_size).terminal
              <=> \/ HasFive(heap[root[k].board], BLACK)
                  \/ HasFive(heap[root[k].board], WHITE)
                  \/ _is_board_full(ai.board_size, heap[root[k].board])

(* ---- C20 ---- *)
RECURSIVE Replay(_, _, _)
\* Board b with the first j stones of placed on it.
Replay(b, placed, j) ==
    IF j = 0 THEN b
    ELSE [Replay(b, placed, j - 1) EXCEPT ![placed[j][1]][placed[j][2]] = placed[j][3]]

\* A pass of the loop has run its rollout.
RolloutDone == ai.kind = "mcts" /\ pc \in {"mcts", "done", "failed"} /\ frame.i >= 1

\* C20: the rollout of the last pass placed at most simulation_depth
\* stones, and before each stone but the first its board showed no five in
\* a row.
C20_RolloutStopsAtFive ==
    RolloutDone =>
        /\ Len(frame.placed) <= ai.simulation_depth
        /\ \A j \in 1 .. Len(frame.placed) - 1 :
              NoFive(Replay(heap[root[frame.node].board], frame.placed, j))

(* ---- C21 ---- *)
RECURSIVE SumVisits(_, _, _)
\* The visits of the first k children in the list.
SumVisits(tree, children, k) ==
    IF k = 0 THEN 0 ELSE tree[children[k]].visits + SumVisits(tree, children, k - 1)

\* An MCTS call has built its root: frame.i passes of its loop are complete.
InLoop == ai.kind = "mcts" /\ pc \in {"mcts", "done", "failed"}

\* The counters of the tree after frame.i complete passes.
VisitCounts ==
    /\ root[1].visits = frame.i
    /\ \A k \in 1 .. Len(root) :
          /\ 0 <= root[k].wins
          /\ root[k].wins <= root[k].visits
          /\ root[k].visits >= SumVisits(root, root[k].children, Len(root[k].children))
          /\ k > 1 => root[k].visits >= 1

\* What a node held before a pass: a node the pass created held nothing.
WinsBefore(k) == IF k <= Len(root) THEN root[k].wins ELSE 0
VisitsBefore(k) == IF k <= Len(root) THEN root[k].visits ELSE 0

\* One pass of the loop counts a visit on the path from the simulated node
\* to the root, and a win on it when the simulated result is the engine's
\* colour; no other counter moves.
PassCounts ==
    (pc = "mcts" /\ frame'.i = frame.i + 1) =>
        \A k \in 1 .. Len(root') :
            Let(k \in {frame'.node} \cup PassedOver(root', frame'.node), LAMBDA onpath :
                /\ root'[k].visits = VisitsBefore(k) + (IF onpath THEN 1 ELSE 0)
                /\ root'[k].wins = WinsBefore(k)
                      + (IF onpath /\ frame'.simulated = ai.color THEN 1 ELSE 0))

RootScored == ai.kind = "minimax" /\ pc \in {"minimax", "done"} /\ frame.i >= 1

\* The root candidate scored last.
LastCandidate == frame.empty_positions[frame.i]

\* C22: on a board without five, the score of a root candidate is at most
\* five_weight plus the depth left under the root, and a candidate that
\* completes five for the engine at once scores at least as high as every
\* candidate scored before it: no win that takes more plies scores higher.
C22_FasterWinScoresHigher ==
    (RootScored /\ NoFive(input)) =>
        /\ frame.score <= (FIVE + ai.max_depth - 1) * Scale
        /\ LastCandidate \in WinningCells(input, ai.color) => frame.score = frame.best_score

(* ---- C23 ---- *)
\* The largest and the smallest number of a non-empty set.
MaxOf(S) == CHOOSE v \in S : \A w \in S : w <= v
MinOf(S) == CHOOSE v \in S : \A w \in S : v <= w

RECURSIVE PlainMinimax(_, _, _, _)
\* The fixed-depth minimax value of board b: the leaf evaluation and the
\* terminal scores of _alpha_beta, every move searched, nothing remembered.
PlainMinimax(self, b, depth, is_maximizing) ==
    IF depth = 0 THEN evaluate_board(self.evaluator, << b >>, CallerRef, self.color).score
    ELSE IF is_maximizing /\ HasFive(b, self.color) THEN (FIVE + depth) * Scale
    ELSE IF ~is_maximizing /\ HasFive(b, self.opponent_color) THEN (0 - FIVE - depth) * Scale
    ELSE IF EmptyCells(b) = {} THEN 0
    ELSE Let({ PlainMinimax(self,
                            Place(b, c, IF is_maximizing THEN self.color
                                        ELSE self.opponent_color),
                            depth - 1, ~is_maximizing) : c \in EmptyCells(b) },
             LAMBDA values : IF is_maximizing THEN MaxOf(values) ELSE MinOf(values))

\* C23: the score a pass of the loop of MinimaxAI.move gives its root
\* candidate is the fixed-depth minimax value of the board with the
\* candidate on it.
C23_RootScoreIsMinimaxValue ==
    [][pc = "minimax" =>
          frame'.score = PlainMinimax(ai, Place(input, frame.empty_positions[frame'.i],
                                                ai.color),
                                      ai.max_depth - 1, FALSE)]_vars

(* ---- C24 ---- *)
\* The depths a search asks the cache for.
Depths == 0 .. 5

\* The boards a lookup is tried with: the boards of the entries, and the
\* input with one more stone of either colour, or with two.
Probes ==
    { key[1] : key \in DOMAIN transposition_table }
        \cup { Place(input, c, color) : c \in EmptyCells(input), color \in Colors }
        \cup { Place(Place(input, c, ai.color), d, ai.opponent_color) :
                 c \in EmptyCells(input), d \in EmptyCells(input) }

\* The entries stored for a board with the cell values of b and the
\* engine's colour, at depth or deeper.
EntriesFor(b, depth) ==
    { key \in DOMAIN transposition_table :
        /\ \A c \in Cells : key[1][c[1]][c[2]] = b[c[1]][c[2]]
        /\ key[2] = ai.color
        /\ transposition_table[key].depth >= depth }

Lookup(b, depth) == _get_cached_evaluation(ai, transposition_table, b, depth)

LookupHitsStored ==
    \A b \in Probes, depth \in Depths :
        /\ Lookup(b, depth).hit <=> EntriesFor(b, depth) # {}
        /\ Lookup(b, depth).hit =>
               \E key \in EntriesFor(b, depth) :
                   Lookup(b, depth).score = transposition_table[key].score

\* During a call an entry is never lost and never replaced by a shallower one.
EntriesKept ==
    pc = "minimax" =>
        \A key \in DOMAIN transposition_table :
            /\ key \in DOMAIN transposition_table'
            /\ transposition_table'[key].depth >= transposition_table[key].depth

\* C24: a lookup in the transposition cache for a board and a depth returns
\* a stored score exactly when an entry is stored for a board with the same
\* cell values and the engine's colour whose depth is at least the
\* requested one; boards that differ in a cell share no entry; and while a
\* call searches, a stored entry stays usable for the depths it served.
C24_LookupHitsExactlyStoredBoards ==
    [](ai.kind = "minimax" /\ input # << >> => LookupHitsStored) /\ [][EntriesKept]_vars

\* A table with an entry too shallow for a deeper request, and with the
\* board of an entry missing once one of its cells is changed.
C24_Witness ==
    /\ pc = "minimax"
    /\ \E key \in DOMAIN transposition_table :
          /\ Lookup(key[1], transposition_table[key].depth).hit
          /\ ~Lookup(key[1], transposition_table[key].depth + 1).hit
    /\ \E key \in DOMAIN transposition_table, c \in EmptyCells(input) :
          /\ key[1][c[1]][c[2]] = ai.color
          /\ ~Lookup(Place(key[1], c, ai.opponent_color), 0).hit

(* ---- C25 ---- *)
\* A decision call of the alpha-beta engine starts: the step that takes
\* the board, up to the first root candidate.
MinimaxCallStarts == ai.kind = "minimax" /\ CallBegins

StartsClean ==
    MinimaxCallStarts =>
        /\ transposition_table' = EmptyMap
        /\ killer_moves' = EmptyMap
        /\ node_count' = 0
        /\ prune_count' = 0

\* A key the search of the present call writes: the engine's colour, and a
\* board with every stone of the input board and at least one more.
WrittenInCall(key) ==
    /\ key[2] = ai.color
    /\ key[1] # input
    /\ \A c \in Cells : input[c[1]][c[2]] # EMPTY => key[1][c[1]][c[2]] = input[c[1]][c[2]]

InMinimaxCall == ai.kind = "minimax" /\ pc \in {"minimax", "done", "failed"}

\* C25: a MinimaxAI.move call starts its search with an empty transposition
\* cache, an empty killer-move table and both counters at zero, and every
\* entry the cache holds during the call and when it has returned is an
\* entry of that call: a board that continues the call's input board.
C25_CallStartsCleanAndOwnsItsEntries ==
    [][StartsClean]_vars
        /\ [](InMinimaxCall => \A key \in DOMAIN transposition_table : WrittenInCall(key))

\* A later call that has returned with entries in its cache.
C25_Witness ==
    /\ MinimaxReturned
    /\ calls >= 2
    /\ Cardinality(DOMAIN transposition_table) >= 2
    /\ prune_count >= 1

(* ---- C26 ---- *)
\* C26: once MCTSAI.move has returned the engine holds no tree, and
\* evaluate(board) on the caller's board gives the evaluator's score of the
\* board, not a statistic of the finished search.
C26_TreeDiscardedAfterMove ==
    MCTSReturned =>
        /\ root = << >>
        /\ MCTS_evaluate(ai, root, heap, CallerRef)
               = evaluate_board(ai.evaluator, heap, CallerRef, ai.color).score

(* ---- C27 ---- *)
\* The pattern categories: the weight and the templates of each.
Categories ==
    { [weight |-> FIVE, templates |-> { <<1, 1, 1, 1, 1>> }],
      [weight |-> FOUR, templates |-> { <<0, 1, 1, 1, 1, 0>> }],
      [weight |-> BLOCKED_FOUR, templates |-> blocked_four_patterns],
      [weight |-> THREE, templates |-> { <<0, 1, 1, 1, 0>> }],
      [weight |-> BLOCKED_THREE, templates |-> blocked_three_patterns],
      [weight |-> TWO, templates |-> { <<0, 1, 1, 0>> }],
      [weight |-> BLOCKED_TWO, templates |-> blocked_two_patterns],
      [weight |-> ONE, templates |-> { <<0, 1, 0>> }] }

\* A template occurs at offset i of norm, cell by cell.
OccursAt(norm, template, i) ==
    /\ i + Len(template) - 1 <= Len(norm)
    /\ \A k \in 1 .. Len(template) : norm[i + k - 1] = template[k]

\* The weights of the categories with a template somewhere in norm.
Matching(norm) ==
    { c.weight : c \in { cat \in Categories :
                           \E template \in cat.templates, i \in 1 .. Len(norm) :
                               OccursAt(norm, template, i) } }

\* The segment as the colour sees it: 1 own stone, 2 other stone, 0 empty.
Seen(segment, color) ==
    [k \in 1 .. Len(segment) |->
        CASE segment[k] = color -> 1
          [] segment[k] = EMPTY -> 0
          [] OTHER -> 2]

\* C27: for a line segment of nine cells and a colour, _match_pattern
\* returns the largest weight among the categories with a template that
\* occurs in the segment as the colour sees it, and 0 when there is none;
\* the weights are in the order five > open four > blocked four = open
\* three > blocked three > open two > blocked two > open one.
C27_HighestCategoryWins ==
    Evaluated("_match_pattern") =>
        /\ frame.value = (IF Matching(Seen(input, frame.color)) = {} THEN 0
                          ELSE MaxOf(Matching(Seen(input, frame.color))))
        /\ FIVE = 1000000 /\ FOUR = 100000 /\ BLOCKED_FOUR = 10000 /\ THREE = 10000
        /\ BLOCKED_THREE = 1000 /\ TWO = 100 /\ BLOCKED_TWO = 10 /\ ONE = 1

\* A segment with a five that also holds templates of two lower categories.
C27_Witness ==
    /\ Evaluated("_match_pattern")
    /\ Cardinality(Matching(Seen(input, frame.color))) >= 3
    /\ frame.value = FIVE

(* ---- C28 ---- *)
\* (x, y) is within four cells of a border of the board in both coordinates.
NearBorders(n, x, y) == (x < 4 \/ x > n - 5) /\ (y < 4 \/ y > n - 5)

\* The cell c lies on a length-9 window centred on (x, y) that fits.
OnFittingWindow(n, x, y, c) ==
    \E d \in 1 .. 4, k \in -4 .. 4 :
        /\ WindowFits(n, x, y, d)
        /\ c = << x + k * Directions[d][1], y + k * Directions[d][2] >>

\* b with only the stones on the windows centred on (x, y) that fit.
OnWindowsOnly(n, b, x, y) ==
    [i \in Idx(n) |-> [j \in Idx(n) |->
        IF OnFittingWindow(n, x, y, << i, j >>) THEN b[i][j] ELSE EMPTY]]

\* C28: for an empty cell within four cells of a border in both coordinates
\* evaluate_position returns 0, whatever stones are on the board; and for
\* every empty cell the result depends only on the stones on the windows
\* centred on the cell that fit on the board.
C28_NoWindowNoScore ==
    Evaluated("evaluate_position") =>
        /\ NearBorders(EvalSize, frame.x, frame.y) => frame.value = 0
        /\ frame.value =
             evaluate_position(ai.evaluator,
                               << OnWindowsOnly(EvalSize, input, frame.x, frame.y) >>,
                               CallerRef, frame.x, frame.y, frame.color).score

\* A cell near two borders where the stone completes five, scored 0.
C28_Witness ==
    /\ Evaluated("evaluate_position")
    /\ NearBorders(EvalSize, frame.x, frame.y)
    /\ _is_win(EvalSize, [input EXCEPT ![frame.x][frame.y] = frame.color], frame.color).win
    /\ frame.value = 0

(* ---- C29 ---- *)
\* The iteration numbers the observer was told, in the order of the reports.
IterationsOf(log) == [k \in 1 .. Len(log) |-> log[k].iteration]

\* 100, 200, ... up to n.
Hundreds(n) == [k \in 1 .. (n \div 100) |-> 100 * k]

\* The alpha-beta engine has reported before its first root candidate and
\* after each of the frame.i candidates scored so far.
MinimaxReports ==
    (ai.kind = "minimax" /\ pc \in {"minimax", "done"} /\ thinking_callback)
        => IterationsOf(notified) = [k \in 1 .. (frame.i + 1) |-> k - 1]

\* The best move reported after a root candidate: the candidate when its
\* score beats every score before it, else the best move reported before.
BestSoFarReported ==
    (ai.kind = "minimax" /\ pc = "minimax" /\ thinking_callback) =>
        /\ frame'.best_score = Max(frame.best_score, frame'.score)
        /\ notified'[Len(notified')].best_move =
              IF frame'.score > frame.best_score THEN frame.empty_positions[frame'.i]
              ELSE notified[Len(notified)].best_move

\* C29 as stated: the MCTS engine has reported exactly after the passes
\* 100, 200, ... it has completed, the last of them the budget, with the
\* number of the pass; the alpha-beta engine has reported before the first
\* root candidate and after each candidate, with the best move so far.
C29_FixedCadence ==
    /\ (ai.kind = "mcts" /\ pc \in {"mcts", "done"} /\ thinking_callback)
          => IterationsOf(notified) = Hundreds(frame.i)
    /\ MinimaxReports

\* The reports of an MCTS call: one report of the winning cell, numbered
\* with the budget, when the call returned before its first pass; none when
\* the call failed at its first report; else one after each hundredth pass.
MCTSReports ==
    (ai.kind = "mcts" /\ pc \in {"mcts", "done", "failed"} /\ thinking_callback) =>
        IF pc = "done" /\ frame.i = 0
        THEN /\ Len(notified) = 1
             /\ notified[1].best_move = result.move
             /\ result.move \in WinningCells(input, ai.color)
        ELSE IF pc = "failed" THEN notified = << >> /\ frame.i = 100
        ELSE IterationsOf(notified) = Hundreds(frame.i)

\* The one report of a call that returns before its first pass carries the
\* budget as its iteration number; a search ends with the pass of the budget.
ShortcutReportsBudget ==
    /\ (ai.kind = "mcts" /\ CallBegins /\ pc' = "done" /\ thinking_callback')
          => notified'[1].iteration = ai.iterations
    /\ (ai.kind = "mcts" /\ pc = "mcts" /\ pc' = "done") => frame'.i = ai.iterations

\* C29: with an observer, MCTSAI.move reports after each pass whose number
\* is a multiple of 100, the last being the pass of the budget, in
\* increasing order and with that number, when the search runs; a call that
\* finds a cell completing five for the engine runs no pass and reports
\* once, with the budget as the number; a call whose first report finds no
\* empty cell fails without any report.  MinimaxAI.move on a board with an
\* empty cell reports once before the first root candidate, with number 0,
\* and once after each root candidate, with numbers 1 .. total and the best
\* move among the candidates scored so far.
C29_CadenceWithShortcut ==
    [](MCTSReports /\ MinimaxReports) /\ [][ShortcutReportsBudget /\ BestSoFarReported]_vars

\* A later call of an MCTS engine that returned before its first pass, with
\* its one report.
C29_Witness ==
    /\ ai.kind = "mcts" /\ pc = "done" /\ thinking_callback
    /\ frame.i = 0
    /\ calls >= 2
    /\ notified[1].iteration >= 200

(* ---- C30 ---- *)
\* A game against the engine is on and the board has an empty cell.
PveGameOn ==
    /\ game.current_mode = "pve"
    /\ game.game_active
    /\ \E x \in Idx(GameSize), y \in Idx(GameSize) : game.board[x][y] = EMPTY

\* Some next stone is accepted: the engine's through ai_move, or the
\* human's on an empty cell of the board.
SomeStoneAccepted ==
    \E x \in Idx(GameSize), y \in Idx(GameSize) :
        /\ game.board[x][y] = EMPTY
        /\ \/ ai_move(game, x, y).self.board[x][y] # EMPTY
           \/ place_piece(game, x, y, FALSE).returned = "success"

\* C30: in a game against the engine, for both settings of ai_first, while
\* the game is active and the board has an empty cell, ai_move or a human
\* place_piece on an empty cell is accepted, and successive stones of the
\* history have alternating colours.
C30_PveNeverStuck ==
    PveGameOn =>
        /\ SomeStoneAccepted
        /\ \A k \in 1 .. (Len(game.move_history) - 1) :
              game.move_history[k + 1].color = Opponent(game.move_history[k].color)
====
